---- MODULE Spec2Model ----
(***************************************************************************)
(* Model of nestjs-secret-manager: the SecretCache, the in-memory and GCP  *)
(* backends, the SecretRegistry and the SecretManagerService (resolver)    *)
(* with its startup validation.                                            *)
(*                                                                         *)
(* Optional values (TypeScript `T | undefined`) are sequences of length    *)
(* at most one: <<>> is undefined, <<x>> is the value x.                   *)
(* Message strings are kept as sequences of their template pieces, so that *)
(* "the message contains ..." can be stated.                               *)
(***************************************************************************)
EXTENDS Integers, Sequences, FiniteSets, TLC

VARIABLES
  options,      \* SecretManagerModuleOptions given to the service
  ttlMs,        \* SecretCache.ttlMs
  cache,        \* SecretCache.cache : key -> CacheEntry
  now,          \* Date.now()
  backends,     \* SecretManagerService.backends (insertion-ordered Map)
  secrets,      \* InMemorySecretBackend.secrets of every in-memory instance
  calls,        \* resolver get calls suspended at an await
  microtasks,   \* calls whose awaited promise has settled, in settling order
  last,         \* what the latest step did to a resolver get call, if anything
  firstValue,   \* history: per cache key, value of the first successful get since the last clearCache
  quietValue,   \* history: per cache key, value of a get that succeeded while no fetch for the key was pending
  cleared,      \* history: clearCache has returned and no get has been called since
  writer,       \* history: per cache key, how the get that wrote the entry spelled its version
  ret,          \* the SecretCache operation that ran most recently
  registry,     \* SecretRegistry.secrets (insertion-ordered Map, by token)
  val           \* onModuleInit / validateAllSecrets: position, locals and outcome

vars == <<options, ttlMs, cache, now, backends, secrets, calls, microtasks,
          last, firstValue, quietValue, cleared, writer, ret, registry, val>>

----------------------------------------------------------------------------
(* Bounds of the model *)

MaxCalls == 2

MaxTime == 2

\* The cacheTTL of the configurations that set one
CacheTtl == 1

\* The most requirements registered before the module initialises
MaxRegistry == 4

----------------------------------------------------------------------------
(* Optional values and Map helpers *)

Undefined == <<>>

Some(x) == <<x>>

\* `o ?? d`
OrElse(o, d) == IF o = Undefined THEN d ELSE o[1]

\* JavaScript truthiness of an optional string
Truthy(o) == o # Undefined /\ o[1] # ""

EmptyMap == [k \in {} |-> Undefined]

\* Map.prototype.set
MapSet(m, k, v) == [x \in DOMAIN m \cup {k} |-> IF x = k THEN v ELSE m[x]]

\* Map.prototype.delete
MapDelete(m, k) == [x \in DOMAIN m \ {k} |-> m[x]]

\* Array.prototype.join on a sequence of message pieces
RECURSIVE Join(_, _)
Join(pieces, sep) ==
  IF Len(pieces) = 0 THEN <<>>
  ELSE IF Len(pieces) = 1 THEN <<pieces[1]>>
  ELSE <<pieces[1], sep>> \o Join(Tail(pieces), sep)

\* String.prototype.includes on messages kept as sequences of pieces
Contains(msg, part) ==
  \E i \in 0..(Len(msg) - Len(part)) :
    \A j \in 1..Len(part) : msg[i + j] = part[j]

Ok(v) == [ok |-> TRUE, value |-> v]

Err(e) == [ok |-> FALSE, error |-> e]

----------------------------------------------------------------------------
(* Errors *)

SecretNotFoundError(secretName, backend, version) ==
  [type |-> "SecretNotFoundError",
   secretName |-> secretName,
   backend |-> backend,
   message |-> <<"Secret '", secretName, "' not found in backend '", backend, "'">>
               \o (IF Truthy(version) THEN <<" (version: ", version[1], ")">> ELSE <<>>)]

SecretAccessDeniedError(secretName, backend, reason) ==
  [type |-> "SecretAccessDeniedError",
   secretName |-> secretName,
   backend |-> backend,
   reason |-> reason,
   message |-> <<"Access denied to secret '", secretName, "' in backend '", backend, "'">>
               \o (IF Truthy(reason) THEN <<": ", reason[1]>> ELSE <<>>)]

UnknownBackendError(backendName, keys) ==
  [type |-> "Error",
   secretName |-> "",
   backend |-> backendName,
   message |-> <<"Unknown secret backend: '", backendName, "'. Available backends: ">>
               \o Join(keys, ", ")]

----------------------------------------------------------------------------
(* SecretCache *)

\* A key that keeps an omitted version apart from 'latest': what C10 rules out
getCacheKeyRaw(backend, name, version) ==
  backend \o ":" \o name \o ":" \o OrElse(version, "")

getCacheKey(backend, name, version) ==
  backend \o ":" \o name \o ":" \o OrElse(version, "latest")

\* A get that expires an entry already when its age equals the TTL: what C11
\* rules out
CacheGetEager(c, backend, name, version) ==
  LET key == getCacheKey(backend, name, version) IN
  IF key \notin DOMAIN c
  THEN [ret |-> Undefined, cache |-> c]
  ELSE IF ttlMs # Undefined /\ now - c[key].cachedAt >= ttlMs[1]
       THEN [ret |-> Undefined, cache |-> MapDelete(c, key)]
       ELSE [ret |-> Some(c[key].value), cache |-> c]

\* A get that removes every expired entry it can see: what C29 rules out
CacheGetSweep(c, backend, name, version) ==
  LET key == getCacheKey(backend, name, version)
      live == {k \in DOMAIN c : ttlMs = Undefined \/ now - c[k].cachedAt <= ttlMs[1]}
  IN [ret |-> IF key \in live THEN Some(c[key].value) ELSE Undefined,
      cache |-> [k \in live |-> c[k]]]

\* A get that restarts the entry's age on every hit: what C31 rules out
CacheGetTouch(c, backend, name, version) ==
  LET key == getCacheKey(backend, name, version) IN
  IF key \notin DOMAIN c
  THEN [ret |-> Undefined, cache |-> c]
  ELSE IF ttlMs # Undefined /\ now - c[key].cachedAt > ttlMs[1]
       THEN [ret |-> Undefined, cache |-> MapDelete(c, key)]
       ELSE [ret |-> Some(c[key].value),
             cache |-> [c EXCEPT ![key].cachedAt = now]]

\* SecretCache.get: the value returned and the cache it leaves
CacheGet(c, backend, name, version) ==
  LET key == getCacheKey(backend, name, version) IN
  IF key \notin DOMAIN c
  THEN [ret |-> Undefined, cache |-> c]
  ELSE IF ttlMs # Undefined /\ now - c[key].cachedAt > ttlMs[1]
       THEN [ret |-> Undefined, cache |-> MapDelete(c, key)]
       ELSE [ret |-> Some(c[key].value), cache |-> c]

\* SecretCache.set
CacheSet(c, backend, name, value, version) ==
  MapSet(c, getCacheKey(backend, name, version), [value |-> value, cachedAt |-> now])

\* A has that looks the key up in the Map and no further: what C30 rules out
CacheHasPeek(c, backend, name, version) ==
  [ret |-> getCacheKey(backend, name, version) \in DOMAIN c, cache |-> c]

\* SecretCache.has
CacheHas(c, backend, name, version) ==
  LET r == CacheGet(c, backend, name, version) IN
  [ret |-> r.ret # Undefined, cache |-> r.cache]

\* A delete that reports an expired entry as not stored: what C13 rules out
CacheDeleteIfLive(c, backend, name, version) ==
  LET key == getCacheKey(backend, name, version) IN
  [ret |-> CacheGet(c, backend, name, version).ret # Undefined,
   cache |-> MapDelete(c, key)]

\* SecretCache.delete
CacheDelete(c, backend, name, version) ==
  LET key == getCacheKey(backend, name, version) IN
  [ret |-> key \in DOMAIN c, cache |-> MapDelete(c, key)]

\* SecretCache.clear
CacheClear(c) == EmptyMap

\* SecretCache.size
CacheSize(c) == Cardinality(DOMAIN c)

----------------------------------------------------------------------------
(* InMemorySecretBackend *)

\* InMemorySecretBackend.set; `version = 'latest'` is a default parameter
MemSet(store, name, value, version) ==
  LET versionId == OrElse(version, "latest")
      versions == IF name \in DOMAIN store THEN store[name] ELSE EmptyMap
  IN MapSet(store, name, MapSet(versions, versionId, value))

\* A get that serves another stored version when 'latest' is asked for and
\* absent: what C19 rules out
MemGetPromoting(store, thisName, name, version) ==
  IF name \notin DOMAIN store
  THEN Err(SecretNotFoundError(name, thisName, version))
  ELSE LET versionId == OrElse(version, "latest") IN
       IF versionId \in DOMAIN store[name] THEN Ok(store[name][versionId])
       ELSE IF versionId = "latest"
            THEN Ok(store[name][CHOOSE v \in DOMAIN store[name] : TRUE])
            ELSE Err(SecretNotFoundError(name, thisName, version))

\* A get that answers a missing version of a known name with 'latest': what
\* C20 rules out
MemGetFallback(store, thisName, name, version) ==
  IF name \notin DOMAIN store
  THEN Err(SecretNotFoundError(name, thisName, version))
  ELSE LET versionId == OrElse(version, "latest") IN
       IF versionId \in DOMAIN store[name] THEN Ok(store[name][versionId])
       ELSE IF "latest" \in DOMAIN store[name] THEN Ok(store[name]["latest"])
            ELSE Err(SecretNotFoundError(name, thisName, version))

\* InMemorySecretBackend.get
\* A get that takes an empty value for a missing one: what C37 rules out
MemGetFalsy(store, thisName, name, version) ==
  IF name \notin DOMAIN store
  THEN Err(SecretNotFoundError(name, thisName, version))
  ELSE LET versionId == OrElse(version, "latest") IN
       IF versionId \in DOMAIN store[name] /\ store[name][versionId] # ""
       THEN Ok(store[name][versionId])
       ELSE Err(SecretNotFoundError(name, thisName, version))

MemGet(store, thisName, name, version) ==
  IF name \notin DOMAIN store
  THEN Err(SecretNotFoundError(name, thisName, version))
  ELSE LET versionId == OrElse(version, "latest") IN
       IF versionId \notin DOMAIN store[name]
       THEN Err(SecretNotFoundError(name, thisName, version))
       ELSE Ok(store[name][versionId])

\* A delete that leaves the empty version map behind: what C21 rules out
MemDeleteNoCleanup(store, name, version) ==
  IF version = Undefined
  THEN [ret |-> name \in DOMAIN store, store |-> MapDelete(store, name)]
  ELSE IF name \notin DOMAIN store
       THEN [ret |-> FALSE, store |-> store]
       ELSE [ret |-> version[1] \in DOMAIN store[name],
             store |-> MapSet(store, name, MapDelete(store[name], version[1]))]

\* A delete that drops the whole name whatever version is given: what C22 rules out
MemDeleteWholeName(store, name, version) ==
  [ret |-> name \in DOMAIN store, store |-> MapDelete(store, name)]

\* InMemorySecretBackend.delete: the boolean returned and the store it leaves
MemDelete(store, name, version) ==
  IF version = Undefined
  THEN [ret |-> name \in DOMAIN store, store |-> MapDelete(store, name)]
  ELSE IF name \notin DOMAIN store
       THEN [ret |-> FALSE, store |-> store]
       ELSE LET versions == MapDelete(store[name], version[1]) IN
            [ret |-> version[1] \in DOMAIN store[name],
             store |-> IF DOMAIN versions = {}
                       THEN MapDelete(store, name)
                       ELSE MapSet(store, name, versions)]

\* InMemorySecretBackend.getLatest
MemGetLatest(store, thisName, name) == MemGet(store, thisName, name, Some("latest"))

\* InMemorySecretBackend.has; `version = 'latest'` is a default parameter
MemHas(store, name, version) ==
  IF name \in DOMAIN store THEN OrElse(version, "latest") \in DOMAIN store[name] ELSE FALSE

\* InMemorySecretBackend.clear
MemClear(store) == EmptyMap

\* InMemorySecretBackend.size
MemSize(store) == Cardinality(DOMAIN store)

\* InMemorySecretBackend.getSecretNames, as the set of the names (their order
\* is the Map's insertion order, which the store does not keep)
MemGetSecretNames(store) == DOMAIN store

\* new InMemorySecretBackend(initialSecrets)
RECURSIVE MemNew(_)
MemNew(initialSecrets) ==
  IF initialSecrets = Undefined \/ DOMAIN initialSecrets[1] = {}
  THEN EmptyMap
  ELSE LET name == CHOOSE n \in DOMAIN initialSecrets[1] : TRUE IN
       MemSet(MemNew(Some(MapDelete(initialSecrets[1], name))),
              name, initialSecrets[1][name], Undefined)

----------------------------------------------------------------------------
(* GcpSecretManagerBackend *)

\* The characters of the byte values the model's payloads are made of
AsciiChar == (49 :> "1" @@ 50 :> "2" @@ 103 :> "g")

\* Buffer.from(payload).toString('utf-8')
RECURSIVE Utf8Decode(_)
Utf8Decode(bytes) ==
  IF bytes = <<>> THEN "" ELSE AsciiChar[Head(bytes)] \o Utf8Decode(Tail(bytes))

\* typeof payload === 'string' ? payload : Buffer.from(payload).toString('utf-8')
PayloadToString(payload) ==
  IF payload.type = "string" THEN payload.data ELSE Utf8Decode(payload.data)

\* `!payload`: undefined, null or the empty string
PayloadMissing(payload) ==
  payload = Undefined \/ (payload[1].type = "string" /\ payload[1].data = "")

\* GcpSecretManagerBackend.get, given what client.accessSecretVersion did:
\* response.error is the rejection (if any), response.payload is payload.data
GcpGet(thisName, name, version, response) ==
  IF response.error # Undefined
  THEN LET grpcError == response.error[1] IN
       IF grpcError.code = 5
       THEN Err(SecretNotFoundError(name, thisName, version))
       ELSE IF grpcError.code = 7
            THEN Err(SecretAccessDeniedError(name, thisName,
                       IF grpcError.message = <<>> THEN Undefined
                       ELSE Some(grpcError.message[1])))
            ELSE Err(grpcError)
  ELSE IF PayloadMissing(response.payload)
       THEN Err(SecretNotFoundError(name, thisName, version))
       ELSE Ok(PayloadToString(response.payload[1]))

\* The error a rejected client.accessSecretVersion carries
GrpcError(code, text) ==
  [type |-> "GrpcError", code |-> code, secretName |-> "", backend |-> "",
   message |-> <<text>>]

GrpcRejected(code, text) ==
  [error |-> Some(GrpcError(code, text)), payload |-> Undefined]

GrpcPayload(payload) == [error |-> Undefined, payload |-> payload]

----------------------------------------------------------------------------
(* SecretManagerService: the backend table *)

MemoryBackend == [id |-> "memory#0", name |-> "memory", kind |-> "memory"]

GcpBackend == [id |-> "gcp#0", name |-> "gcp", kind |-> "gcp"]

\* A custom backend as the service's test builds it: an InMemorySecretBackend
\* whose name is redefined to 'custom'
CustomBackend == [id |-> "custom#1", name |-> "custom", kind |-> "memory"]

\* A second InMemorySecretBackend, registered under its own name 'memory'
OtherMemoryBackend == [id |-> "memory#2", name |-> "memory", kind |-> "memory"]

\* A backend that is not an InMemorySecretBackend and calls itself 'memory':
\* a GcpSecretManagerBackend renamed the way the service's test renames one
RemoteBackend == [id |-> "gcp#3", name |-> "memory", kind |-> "gcp"]

\* Map.prototype.get on the insertion-ordered backend table
TableGet(table, name) ==
  IF \E i \in 1..Len(table) : table[i].name = name
  THEN Some(table[CHOOSE i \in 1..Len(table) : table[i].name = name].backend)
  ELSE Undefined

\* Map.prototype.set on the insertion-ordered backend table
TableSet(table, name, backend) ==
  IF \E i \in 1..Len(table) : table[i].name = name
  THEN [i \in 1..Len(table) |->
          IF table[i].name = name THEN [name |-> name, backend |-> backend] ELSE table[i]]
  ELSE Append(table, [name |-> name, backend |-> backend])

\* Array.from(this.backends.keys())
TableKeys(table) == [i \in 1..Len(table) |-> table[i].name]

\* A constructor that lets a default name without a backend stand for the
\* in-memory backend: what C35 rules out
initializeBackendsDefaulting(opts) ==
  LET withGcp == IF Truthy(opts.gcpProjectId)
                 THEN TableSet(<<>>, "gcp", GcpBackend)
                 ELSE <<>>
      table == TableSet(withGcp, "memory", MemoryBackend)
  IN IF TableGet(table, opts.defaultBackend) = Undefined
     THEN TableSet(table, opts.defaultBackend, MemoryBackend)
     ELSE table

initializeBackends(opts) ==
  LET withGcp == IF Truthy(opts.gcpProjectId)
                 THEN TableSet(<<>>, "gcp", GcpBackend)
                 ELSE <<>>
  IN TableSet(withGcp, "memory", MemoryBackend)

\* The SecretCache TTL the constructor passes
ConstructorTtl(opts) ==
  LET cacheEnabled == opts.cacheEnabled # Some(FALSE) IN
  IF cacheEnabled THEN opts.cacheTTL ELSE Undefined

\* A lookup that falls back on the first registered backend: what C7 rules out
getBackendOrFirst(name) ==
  LET backend == TableGet(backends, OrElse(name, options.defaultBackend))
  IN IF backend = Undefined THEN Ok(backends[1].backend) ELSE Ok(backend[1])

getBackend(name) ==
  LET backendName == OrElse(name, options.defaultBackend)
      backend == TableGet(backends, backendName)
  IN IF backend = Undefined
     THEN Err(UnknownBackendError(backendName, TableKeys(backends)))
     ELSE Ok(backend[1])

\* A registerBackend that keeps the backend a name already has: what C17 rules out
registerBackendIfAbsent(table, backend) ==
  IF TableGet(table, backend.name) = Undefined
  THEN TableSet(table, backend.name, backend)
  ELSE table

\* `this.backends.get('memory') as InMemorySecretBackend`
getInMemoryBackend(table) == TableGet(table, "memory")

\* A registerBackend that leaves the registered backend alone in the table:
\* what C36 rules out
registerBackendAlone(table, backend) ==
  <<[name |-> backend.name, backend |-> backend]>>

registerBackend(table, backend) == TableSet(table, backend.name, backend)

----------------------------------------------------------------------------
(* SecretManagerService: get *)

\* A resolution that leaves an omitted version empty: what C9 rules out
ResolveVersionRaw(version) == OrElse(version, "")

\* `version ?? 'latest'`
ResolveVersion(version) == OrElse(version, "latest")

\* get and getInternal up to the first suspension: the backend is resolved,
\* the span is started and the cache is checked
getStart(name, version, backendName) ==
  LET found == getBackend(backendName) IN
  IF ~found.ok
  THEN [kind |-> "throw", error |-> found.error, cache |-> cache]
  ELSE LET backend == found.value
           resolvedVersion == ResolveVersion(version)
           span == [name |-> name, version |-> resolvedVersion, backend |-> backend.name]
           useCache == options.cacheEnabled # Some(FALSE)
           cached == IF useCache
                     THEN CacheGet(cache, backend.name, name, Some(resolvedVersion))
                     ELSE [ret |-> Undefined, cache |-> cache]
       IN [kind |-> IF cached.ret # Undefined THEN "hit" ELSE "fetch",
           value |-> cached.ret,
           cache |-> cached.cache,
           cacheRead |-> useCache,
           backend |-> backend,
           name |-> name,
           version |-> resolvedVersion,
           span |-> span]

getLatestStart(name, backendName) == getStart(name, Some("latest"), backendName)

\* A continuation that never stores the fetched value: what C1 rules out
getInternalResumeNoStore(call, outcome) ==
  IF outcome.ok
  THEN [cache |-> cache, result |-> Ok(outcome.value)]
  ELSE [cache |-> cache, result |-> outcome]

\* A continuation that stores the fetched value even with caching disabled:
\* what C3 rules out
getInternalResumeAlwaysStore(call, outcome) ==
  IF outcome.ok
  THEN [cache |-> CacheSet(cache, call.backend.name, call.name, outcome.value,
                           Some(call.version)),
        result |-> Ok(outcome.value)]
  ELSE [cache |-> cache, result |-> outcome]

\* A continuation that yields to an entry another call stored meanwhile: what
\* C26 rules out
getInternalResumeKeepFirst(call, outcome) ==
  IF outcome.ok
  THEN IF /\ options.cacheEnabled # Some(FALSE)
          /\ getCacheKey(call.backend.name, call.name, Some(call.version)) \in DOMAIN cache
       THEN [cache |-> cache,
             result |-> Ok(cache[getCacheKey(call.backend.name, call.name,
                                             Some(call.version))].value)]
       ELSE [cache |-> IF options.cacheEnabled # Some(FALSE)
                       THEN CacheSet(cache, call.backend.name, call.name, outcome.value,
                                     Some(call.version))
                       ELSE cache,
             result |-> Ok(outcome.value)]
  ELSE [cache |-> cache, result |-> outcome]

\* A continuation that remembers a failure as an empty value: what C32 rules out
getInternalResumeNegative(call, outcome) ==
  IF options.cacheEnabled # Some(FALSE)
  THEN [cache |-> CacheSet(cache, call.backend.name, call.name,
                           IF outcome.ok THEN outcome.value ELSE "", Some(call.version)),
        result |-> outcome]
  ELSE [cache |-> cache, result |-> outcome]

\* getInternal after `await backend.get(name, version)` has settled
getInternalResume(call, outcome) ==
  IF outcome.ok
  THEN [cache |-> IF options.cacheEnabled # Some(FALSE)
                  THEN CacheSet(cache, call.backend.name, call.name, outcome.value,
                                Some(call.version))
                  ELSE cache,
        result |-> Ok(outcome.value)]
  ELSE [cache |-> cache, result |-> outcome]

\* A catch block that wraps the error in a generic one: what C8 rules out
RethrowWrapped(error) ==
  [type |-> "Error", secretName |-> "", backend |-> "",
   message |-> <<"Failed to get secret: ">> \o error.message]

\* get's catch block: the error is thrown again
Rethrow(error) == error

\* get's try / catch / finally around getInternal: the span is given its
\* status and ended, the value is returned or the error thrown again
getFinish(span, result) ==
  [result |-> IF result.ok THEN result ELSE Err(Rethrow(result.error)),
   span |-> Some([name |-> span.name, version |-> span.version, backend |-> span.backend,
                  status |-> IF result.ok THEN "OK" ELSE "ERROR",
                  message |-> IF result.ok THEN <<>> ELSE result.error.message,
                  ended |-> TRUE])]

----------------------------------------------------------------------------
(* Inputs of the model *)

SecretNames == {"api-key"}

SecretValues == {"test-api-key-value", "modified-value"}

GetRequest(op, name, version, backendName) ==
  [op |-> op, name |-> name, version |-> version, backendName |-> backendName]

\* The calls callers make: the version omitted, 'latest' and a numbered one
\* (which the in-memory backend does not hold); the backend omitted, built-in,
\* custom and never registered
GetRequests ==
  { GetRequest("get", "api-key", Undefined, Undefined),
    GetRequest("get", "api-key", Some("latest"), Undefined),
    GetRequest("getLatest", "api-key", Undefined, Undefined),
    GetRequest("get", "api-key", Some("1"), Some("memory")),
    GetRequest("get", "api-key", Undefined, Some("gcp")),
    GetRequest("getLatest", "api-key", Undefined, Some("gcp")),
    GetRequest("get", "api-key", Undefined, Some("unknown")) }

\* What client.accessSecretVersion can do
GcpResponses ==
  { GrpcRejected(5, "NOT_FOUND"),
    GrpcRejected(7, "PERMISSION_DENIED"),
    GrpcRejected(14, "UNAVAILABLE"),
    GrpcPayload(Some([type |-> "string", data |-> "g1"])),
    GrpcPayload(Some([type |-> "bytes", data |-> <<103, 50>>])) }

\* The backends callers hand to registerBackend
Registerable == {CustomBackend}

ModuleOptions(defaultBackend, cacheEnabled, cacheTTL, validateOnStartup, gcpProjectId) ==
  [defaultBackend |-> defaultBackend,
   cacheEnabled |-> cacheEnabled,
   cacheTTL |-> cacheTTL,
   validateOnStartup |-> validateOnStartup,
   gcpProjectId |-> gcpProjectId,
   inMemorySecrets |-> Some("api-key" :> "test-api-key-value")]

\* The options the running service is built with: the service test's own
\* (caching on, no TTL), caching off with a TTL given all the same, and caching
\* unset with a TTL and the GCP backend as the default
ServiceOptions ==
  { ModuleOptions("memory", Some(TRUE), Undefined, Some(FALSE), Undefined),
    ModuleOptions("memory", Some(FALSE), Some(CacheTtl), Some(FALSE), Undefined),
    ModuleOptions("gcp", Undefined, Some(CacheTtl), Some(FALSE), Some("test-project")) }

\* The stores of the in-memory backends the model holds
InitialSecrets(opts) ==
  [id \in {MemoryBackend.id, CustomBackend.id, OtherMemoryBackend.id} |->
     IF id = MemoryBackend.id THEN MemNew(opts.inMemorySecrets)
     ELSE IF id = CustomBackend.id THEN MemNew(Some("api-key" :> "custom-value"))
     ELSE MemNew(Some("api-key" :> "other-value"))]

----------------------------------------------------------------------------
(* The running service: concurrent get calls *)

CallIds == 1..MaxCalls

IdleCall == [pc |-> "idle"]

\* No SecretCache operation has run
NoOp == [op |-> "none"]

\* The cache key a suspended call will write
CallKey(call) == getCacheKey(call.backend.name, call.name, Some(call.version))

\* Some call is suspended on a backend fetch for this cache key
PendingFetch(cs, key) ==
  \E c \in CallIds : cs[c].pc # "idle" /\ CallKey(cs[c]) = key

\* What the backend holds for a request when it is made (in-memory backends)
Held(backend, name, version) ==
  IF backend.kind = "memory"
  THEN LET held == MemGet(secrets[backend.id], backend.name, name, Some(version)) IN
       IF held.ok THEN Some(held.value) ELSE Undefined
  ELSE Undefined

StartOf(req) ==
  IF req.op = "getLatest"
  THEN getLatestStart(req.name, req.backendName)
  ELSE getStart(req.name, req.version, req.backendName)

\* How a call spells its version: through getLatest, omitted, or given
Form(req) ==
  IF req.op = "getLatest" THEN "getLatest"
  ELSE IF req.version = Undefined THEN "omitted" ELSE req.version[1]

\* History after a get succeeded with caching enabled
NoteFirst(h, key, value) ==
  IF key \in DOMAIN h THEN h ELSE MapSet(h, key, value)

NoteQuiet(h, cs, key, value) ==
  IF key \in DOMAIN h \/ PendingFetch(cs, key) THEN h ELSE MapSet(h, key, value)

\* What the latest step did to a get call: "rejected" (unknown backend), "hit"
\* (returned from the cache), "suspended" (backend.get invoked, awaiting it) or
\* "resumed" (returned or threw after the await)
CallEvent(event, req, backend, result, fetches, cacheRead, request, thrown, span, key, expectFirst, expectQuiet, afterClear, held, wroteBy) ==
  Some([event |-> event, req |-> req, backend |-> backend, result |-> result,
        fetches |-> fetches, cacheRead |-> cacheRead, request |-> request,
        thrown |-> thrown, span |-> span, key |-> key, expectFirst |-> expectFirst,
        expectQuiet |-> expectQuiet, afterClear |-> afterClear, held |-> held,
        wroteBy |-> wroteBy])

\* The arguments backend.get is invoked with
BackendRequest(backend, name, version) ==
  Some([backend |-> backend.id, name |-> name, version |-> version])

\* get or getLatest is invoked: everything up to the first suspension.
\* An unknown backend rejects and a cache hit resolves without touching shared
\* state again, so both complete here; a miss invokes backend.get and suspends.
GetCall(c, req) ==
  /\ calls[c].pc = "idle"
  /\ \A d \in 1..(c - 1) : calls[d].pc # "idle"
  /\ \E s \in {StartOf(req)} :
     /\ cache' = s.cache
     /\ cleared' = FALSE
     /\ IF s.kind = "throw"
        THEN /\ last' = CallEvent("rejected", Some(req), Undefined, Some(Err(s.error)),
                                  0, FALSE, Undefined, Undefined, Undefined, Undefined,
                                  Undefined, Undefined, cleared, Undefined, Undefined)
             /\ UNCHANGED <<calls, microtasks, firstValue, quietValue, writer>>
        ELSE \E key \in {getCacheKey(s.backend.name, s.name, Some(s.version))},
                held \in {Held(s.backend, s.name, s.version)} :
             \E expired \in {(key \in DOMAIN cache) /\ (key \notin DOMAIN s.cache)} :
             \E first0 \in {IF expired THEN MapDelete(firstValue, key) ELSE firstValue},
                quiet0 \in {IF expired THEN MapDelete(quietValue, key) ELSE quietValue},
                writer0 \in {IF expired THEN MapDelete(writer, key) ELSE writer} :
             \E expectFirst \in {IF s.cacheRead /\ key \in DOMAIN first0
                                  THEN Some(first0[key]) ELSE Undefined},
                expectQuiet \in {IF s.cacheRead /\ key \in DOMAIN quiet0
                                  THEN Some(quiet0[key]) ELSE Undefined} :
                /\ writer' = writer0
                /\ IF s.kind = "hit"
                   THEN \E fin \in {getFinish(s.span, Ok(s.value[1]))} :
                        /\ last' = CallEvent("hit", Some(req), Some(s.backend),
                                             Some(fin.result), 0, s.cacheRead, Undefined,
                                             Undefined, fin.span, Some(key), expectFirst,
                                             expectQuiet, cleared, held,
                                             IF key \in DOMAIN writer0
                                             THEN Some(writer0[key]) ELSE Undefined)
                        /\ firstValue' = NoteFirst(first0, key, s.value[1])
                        /\ quietValue' = NoteQuiet(quiet0, calls, key, s.value[1])
                        /\ UNCHANGED <<calls, microtasks>>
                   ELSE \E inMemory \in {s.backend.kind = "memory"} :
                        /\ calls' = [calls EXCEPT ![c] =
                                       [pc |-> IF inMemory THEN "awaiting" ELSE "fetching",
                                        backend |-> s.backend, name |-> s.name,
                                        version |-> s.version, span |-> s.span,
                                        cacheRead |-> s.cacheRead,
                                        outcome |-> IF inMemory
                                                    THEN Some(MemGet(secrets[s.backend.id],
                                                                     s.backend.name, s.name,
                                                                     Some(s.version)))
                                                    ELSE Undefined,
                                        expectFirst |-> expectFirst,
                                        expectQuiet |-> expectQuiet,
                                        afterClear |-> cleared, held |-> held,
                                        form |-> Form(req),
                                        after |-> {d \in CallIds : calls[d].pc # "idle"},
                                        stale |-> FALSE,
                                        evicted |-> expired]]
                        /\ microtasks' = IF inMemory THEN Append(microtasks, c)
                                         ELSE microtasks
                        /\ firstValue' = first0
                        /\ quietValue' = quiet0
                        /\ last' = CallEvent("suspended", Some(req), Some(s.backend),
                                             Undefined, 1, s.cacheRead,
                                             BackendRequest(s.backend, s.name, s.version),
                                             Undefined, Undefined, Some(key), expectFirst,
                                             expectQuiet, cleared, held, Undefined)
  /\ UNCHANGED <<options, ttlMs, now, backends, secrets, ret>>

\* A caller invokes get or getLatest on the running service
GetStart(c, req) ==
  /\ GetCall(c, req)
  /\ UNCHANGED <<registry, val>>

\* The continuation of a suspended call once backend.get has settled
Resume(c, outcome) ==
  \E call \in {calls[c]} :
  \E r \in {getInternalResume(call, outcome)}, key \in {CallKey(call)} :
  \E rest \in {[d \in CallIds |->
                  IF d = c THEN IdleCall
                  ELSE IF calls[d].pc = "idle" THEN calls[d]
                  ELSE [calls[d] EXCEPT
                          !.after = @ \ {c},
                          !.stale = @ \/ (/\ r.cache # cache
                                          /\ CallKey(calls[d]) = key
                                          /\ d \in call.after)]]} :
  \E fin \in {getFinish(call.span, r.result)} :
  \E noted \in {fin.result.ok /\ call.cacheRead} :
     /\ cache' = r.cache
     /\ calls' = rest
     /\ last' = CallEvent("resumed", Undefined, Some(call.backend), Some(fin.result), 1,
                          call.cacheRead,
                          BackendRequest(call.backend, call.name, call.version),
                          IF outcome.ok THEN Undefined ELSE Some(outcome.error),
                          fin.span, Some(key), call.expectFirst, call.expectQuiet,
                          call.afterClear, call.held, Undefined)
     /\ firstValue' = IF noted THEN NoteFirst(firstValue, key, fin.result.value)
                      ELSE firstValue
     /\ quietValue' = IF noted THEN NoteQuiet(quietValue, rest, key, fin.result.value)
                      ELSE quietValue
     /\ writer' = IF r.cache # cache THEN MapSet(writer, key, call.form) ELSE writer

\* The oldest settled promise's continuation runs (the microtask queue is FIFO)
ResumeHead ==
  /\ microtasks # <<>>
  /\ Resume(Head(microtasks), calls[Head(microtasks)].outcome[1])
  /\ microtasks' = Tail(microtasks)
  /\ UNCHANGED <<options, ttlMs, now, backends, secrets, cleared, ret>>

GetResume ==
  /\ ResumeHead
  /\ UNCHANGED <<registry, val>>

\* client.accessSecretVersion settles: an I/O completion, handled only once no
\* microtask is left; the GCP backend maps it and the call continues
Respond(c, response) ==
  /\ calls[c].pc = "fetching"
  /\ microtasks = <<>>
  /\ Resume(c, GcpGet(calls[c].backend.name, calls[c].name, Some(calls[c].version),
                      response))
  /\ UNCHANGED <<options, ttlMs, now, backends, secrets, microtasks, cleared, ret>>

BackendRespond(c, response) ==
  /\ Respond(c, response)
  /\ UNCHANGED <<registry, val>>

\* SecretManagerService.clearCache
ClearCache ==
  /\ cache' = CacheClear(cache)
  /\ cleared' = TRUE
  /\ firstValue' = EmptyMap
  /\ quietValue' = EmptyMap
  /\ writer' = EmptyMap
  /\ calls' = [c \in CallIds |->
                 IF calls[c].pc = "idle" THEN calls[c]
                 ELSE [calls[c] EXCEPT !.expectFirst = Undefined,
                                       !.expectQuiet = Undefined,
                                       !.stale = FALSE]]
  /\ last' = Undefined
  /\ UNCHANGED <<options, ttlMs, now, backends, secrets, microtasks, ret, registry, val>>

\* SecretManagerService.registerBackend
RegisterBackend(backend) ==
  /\ backends' = registerBackend(backends, backend)
  /\ last' = Undefined
  /\ UNCHANGED <<options, ttlMs, cache, now, secrets, calls, microtasks,
                 firstValue, quietValue, cleared, writer, ret, registry, val>>

\* getInMemoryBackend().set(name, value, version) by a test
MemorySet(name, value, version) ==
  /\ secrets' = [secrets EXCEPT ![MemoryBackend.id] = MemSet(@, name, value, version)]
  /\ last' = Undefined
  /\ UNCHANGED <<options, ttlMs, cache, now, backends, calls, microtasks,
                 firstValue, quietValue, cleared, writer, ret, registry, val>>

\* Time passes
Tick ==
  /\ now < MaxTime
  /\ now' = now + 1
  /\ last' = Undefined
  /\ ret' = NoOp
  /\ UNCHANGED <<options, ttlMs, cache, backends, secrets, calls, microtasks,
                 firstValue, quietValue, cleared, writer, registry, val>>

\* onModuleInit has not been called
IdleValidation ==
  [pc |-> "notStarted", ran |-> FALSE, secrets |-> <<>>, idx |-> 0, errors |-> <<>>,
   settled |-> Undefined, result |-> Undefined, attempted |-> <<>>, outcomes |-> <<>>,
   fetches |-> 0]

Init ==
  /\ options \in ServiceOptions
  /\ ttlMs = ConstructorTtl(options)
  /\ cache = EmptyMap
  /\ now = 0
  /\ backends = initializeBackends(options)
  /\ secrets = InitialSecrets(options)
  /\ calls = [c \in CallIds |-> IdleCall]
  /\ microtasks = <<>>
  /\ last = Undefined
  /\ firstValue = EmptyMap
  /\ quietValue = EmptyMap
  /\ cleared = FALSE
  /\ writer = EmptyMap
  /\ ret = NoOp
  /\ registry = <<>>
  /\ val = IdleValidation

Next ==
  \/ \E c \in CallIds, req \in GetRequests : GetStart(c, req)
  \/ GetResume
  \/ \E c \in CallIds, response \in GcpResponses : BackendRespond(c, response)
  \/ ClearCache
  \/ \E backend \in Registerable : RegisterBackend(backend)
  \/ \E name \in SecretNames, value \in SecretValues : MemorySet(name, value, Undefined)
  \/ Tick

Spec == Init /\ [][Next]_vars

----------------------------------------------------------------------------
(* SecretRegistry and getSecretToken *)

SECRET_TOKEN_PREFIX == "SECRET"

\* `options?.field`
OptionOf(opts, field) == IF opts = Undefined THEN Undefined ELSE opts[1][field]

InjectSecretOptions(version, backend) == Some([version |-> version, backend |-> backend])

getSecretToken(name, opts) ==
  LET backend == OrElse(OptionOf(opts, "backend"), "default")
      version == OrElse(OptionOf(opts, "version"), "latest")
  IN SECRET_TOKEN_PREFIX \o "_" \o backend \o "_" \o name \o "_" \o version

\* A register that appends without looking for the token: what C14 rules out
registerAppend(reg, name, opts) ==
  Append(reg, [name |-> name,
               version |-> OptionOf(opts, "version"),
               backend |-> OptionOf(opts, "backend"),
               token |-> getSecretToken(name, opts)])

\* SecretRegistry.register: the requirement built and the Map it leaves
register(reg, name, opts) ==
  LET token == getSecretToken(name, opts)
      requirement == [name |-> name,
                      version |-> OptionOf(opts, "version"),
                      backend |-> OptionOf(opts, "backend"),
                      token |-> token]
  IN IF \E i \in 1..Len(reg) : reg[i].token = token
     THEN [i \in 1..Len(reg) |-> IF reg[i].token = token THEN requirement ELSE reg[i]]
     ELSE Append(reg, requirement)

\* SecretRegistry.getAll
getAll(reg) == reg

----------------------------------------------------------------------------
(* SecretManagerService: onModuleInit and validateAllSecrets *)

\* A gate that validates only when the option is set to true: what C6 rules out
ValidationEnabledIfTrue(opts) == opts.validateOnStartup = Some(TRUE)

\* `this.options.validateOnStartup !== false`
ValidationEnabled(opts) == opts.validateOnStartup # Some(FALSE)

\* The messages of the errors, each behind its "  - ", joined by sep
RECURSIVE JoinMessages(_, _)
JoinMessages(errors, sep) ==
  IF Len(errors) = 0 THEN <<>>
  ELSE IF Len(errors) = 1 THEN <<"  - ">> \o errors[1].message
  ELSE <<"  - ">> \o errors[1].message \o <<sep>> \o JoinMessages(Tail(errors), sep)

\* An aggregate error that reports the first failure only: what C5 rules out
ValidationErrorFirst(errors) ==
  [type |-> "Error", secretName |-> "", backend |-> "",
   message |-> <<"Failed to validate ", ToString(Len(errors)), " secret(s):\n", "  - ">>
               \o errors[1].message]

\* The aggregate error validateAllSecrets throws
ValidationError(errors) ==
  [type |-> "Error", secretName |-> "", backend |-> "",
   message |-> <<"Failed to validate ", ToString(Len(errors)), " secret(s):\n">>
               \o JoinMessages(errors, "\n")]

\* A loop that stops at the first failure: what C4 rules out
validateSettledAbort(v, result) ==
  [v EXCEPT !.errors = IF result.ok THEN @ ELSE Append(@, result.error),
            !.outcomes = Append(@, result),
            !.settled = Undefined,
            !.idx = IF result.ok THEN @ + 1 ELSE Len(v.secrets) + 1]

\* A catch block that puts the failure in front of the earlier ones: what C27
\* rules out
validateSettledPrepend(v, result) ==
  [v EXCEPT !.errors = IF result.ok THEN @ ELSE <<result.error>> \o @,
            !.outcomes = Append(@, result),
            !.settled = Undefined,
            !.idx = @ + 1]

\* The loop body after `await this.get(...)` has settled: a failure is pushed
\* to errors by the catch block, and the loop moves on
validateSettled(v, result) ==
  [v EXCEPT !.errors = IF result.ok THEN @ ELSE Append(@, result.error),
            !.outcomes = Append(@, result),
            !.settled = Undefined,
            !.idx = @ + 1]

\* An end of the loop that decides the result and never returns: what C28 rules out
validateEndStuck(v) ==
  [v EXCEPT !.result = Some(IF Len(v.errors) > 0
                            THEN Err(ValidationError(v.errors))
                            ELSE Ok("void"))]

\* After the loop: throw the aggregate error or return
validateEnd(v) ==
  [v EXCEPT !.pc = "done",
            !.result = Some(IF Len(v.errors) > 0
                            THEN Err(ValidationError(v.errors))
                            ELSE Ok("void"))]

\* `await this.get(secret.name, secret.version, secret.backend)` for the
\* requirement at v.idx, up to the suspension of validateAllSecrets
ValidateGet(v) ==
  /\ GetCall(1, GetRequest("get", v.secrets[v.idx].name, v.secrets[v.idx].version,
                           v.secrets[v.idx].backend))
  /\ val' = [v EXCEPT !.attempted = Append(@, v.secrets[v.idx]),
                      !.fetches = @ + last'[1].fetches,
                      !.settled = last'[1].result]

\* A decorator or a test registers a requirement before the module initialises
Register(name, opts) ==
  /\ val.pc = "notStarted"
  /\ Len(register(registry, name, opts)) <= MaxRegistry
  /\ registry' = register(registry, name, opts)
  /\ last' = Undefined
  /\ UNCHANGED <<options, ttlMs, cache, now, backends, secrets, calls, microtasks,
                 firstValue, quietValue, cleared, writer, ret, val>>

\* onModuleInit, up to its first suspension (or to its end)
ModuleInit ==
  /\ val.pc = "notStarted"
  /\ IF ~ValidationEnabled(options)
     THEN /\ val' = [val EXCEPT !.pc = "done", !.result = Some(Ok("void"))]
          /\ last' = Undefined
          /\ UNCHANGED <<options, ttlMs, cache, now, backends, secrets, calls, microtasks,
                         firstValue, quietValue, cleared, writer, ret>>
     ELSE IF Len(getAll(registry)) = 0
          THEN /\ val' = [val EXCEPT !.pc = "done", !.ran = TRUE,
                                     !.result = Some(Ok("void"))]
               /\ last' = Undefined
               /\ UNCHANGED <<options, ttlMs, cache, now, backends, secrets, calls,
                              microtasks, firstValue, quietValue, cleared, writer, ret>>
          ELSE ValidateGet([val EXCEPT !.pc = "validating", !.ran = TRUE,
                                       !.secrets = getAll(registry), !.idx = 1])
  /\ UNCHANGED registry

\* The get validateAllSecrets awaits fetched from an in-memory backend: its
\* continuation runs and the promise settles
ValidationGetResume ==
  /\ val.pc = "validating"
  /\ ResumeHead
  /\ val' = [val EXCEPT !.settled = last'[1].result]
  /\ UNCHANGED registry

\* The get validateAllSecrets awaits fetched from GCP: the client settles
ValidationRespond(response) ==
  /\ val.pc = "validating"
  /\ Respond(1, response)
  /\ val' = [val EXCEPT !.settled = last'[1].result]
  /\ UNCHANGED registry

\* validateAllSecrets continues after its await: the outcome is recorded and
\* the next requirement's get is called, or the loop ends
ValidateContinue ==
  /\ val.pc = "validating"
  /\ val.settled # Undefined
  /\ \E v \in {validateSettled(val, val.settled[1])} :
       IF v.idx > Len(v.secrets)
       THEN /\ val' = validateEnd(v)
            /\ last' = Undefined
            /\ UNCHANGED <<options, ttlMs, cache, now, backends, secrets, calls,
                           microtasks, firstValue, quietValue, cleared, writer, ret>>
       ELSE ValidateGet(v)
  /\ UNCHANGED registry

\* What decorators register: a secret the in-memory backend holds, one it
\* lacks, two in GCP and one in a backend nobody registered
Registrations ==
  { <<"api-key", Undefined>>,
    <<"missing-secret", Undefined>>,
    <<"api-key", InjectSecretOptions(Undefined, Some("gcp"))>>,
    <<"api-key", InjectSecretOptions(Some("2"), Some("gcp"))>>,
    <<"api-key", InjectSecretOptions(Undefined, Some("nonexistent"))>> }

\* validateOnStartup unset, true and false; both built-in backends
StartupOptions ==
  { ModuleOptions("memory", Undefined, Undefined, validateOnStartup, Some("test-project")) :
      validateOnStartup \in {Undefined, Some(TRUE), Some(FALSE)} }

InitStartup ==
  /\ options \in StartupOptions
  /\ ttlMs = ConstructorTtl(options)
  /\ cache = EmptyMap
  /\ now = 0
  /\ backends = initializeBackends(options)
  /\ secrets = InitialSecrets(options)
  /\ calls = [c \in CallIds |-> IdleCall]
  /\ microtasks = <<>>
  /\ last = Undefined
  /\ firstValue = EmptyMap
  /\ quietValue = EmptyMap
  /\ cleared = FALSE
  /\ writer = EmptyMap
  /\ ret = NoOp
  /\ registry = <<>>
  /\ val = IdleValidation

NextStartup ==
  \/ \E r \in Registrations : Register(r[1], r[2])
  \/ ModuleInit
  \/ ValidationGetResume
  \/ \E response \in GcpResponses : ValidationRespond(response)
  \/ ValidateContinue

SpecStartup == InitStartup /\ [][NextStartup]_vars

----------------------------------------------------------------------------
(* A SecretCache on its own *)

\* The record of a SecretCache operation and what it returned
CacheOp(op, backend, name, version, value, result) ==
  [op |-> op, backend |-> backend, name |-> name, version |-> version,
   value |-> value, result |-> result]

CacheSetOp(backend, name, value, version) ==
  /\ cache' = CacheSet(cache, backend, name, value, version)
  /\ ret' = CacheOp("set", backend, name, version, Some(value), Undefined)
  /\ UNCHANGED <<options, ttlMs, now, backends, secrets, calls, microtasks, last,
                 firstValue, quietValue, cleared, writer, registry, val>>

CacheGetOp(backend, name, version) ==
  /\ \E r \in {CacheGet(cache, backend, name, version)} :
       /\ cache' = r.cache
       /\ ret' = CacheOp("get", backend, name, version, Undefined, r.ret)
  /\ UNCHANGED <<options, ttlMs, now, backends, secrets, calls, microtasks, last,
                 firstValue, quietValue, cleared, writer, registry, val>>

CacheHasOp(backend, name, version) ==
  /\ \E r \in {CacheHas(cache, backend, name, version)} :
       /\ cache' = r.cache
       /\ ret' = CacheOp("has", backend, name, version, Undefined, Some(r.ret))
  /\ UNCHANGED <<options, ttlMs, now, backends, secrets, calls, microtasks, last,
                 firstValue, quietValue, cleared, writer, registry, val>>

CacheDeleteOp(backend, name, version) ==
  /\ \E r \in {CacheDelete(cache, backend, name, version)} :
       /\ cache' = r.cache
       /\ ret' = CacheOp("delete", backend, name, version, Undefined, Some(r.ret))
  /\ UNCHANGED <<options, ttlMs, now, backends, secrets, calls, microtasks, last,
                 firstValue, quietValue, cleared, writer, registry, val>>

CacheClearOp ==
  /\ cache' = CacheClear(cache)
  /\ ret' = CacheOp("clear", "", "", Undefined, Undefined, Undefined)
  /\ UNCHANGED <<options, ttlMs, now, backends, secrets, calls, microtasks, last,
                 firstValue, quietValue, cleared, writer, registry, val>>

CacheSizeOp ==
  /\ ret' = CacheOp("size", "", "", Undefined, Undefined, Some(CacheSize(cache)))
  /\ UNCHANGED <<options, ttlMs, cache, now, backends, secrets, calls, microtasks, last,
                 firstValue, quietValue, cleared, writer, registry, val>>

\* The values callers store: a secret and the empty string
CacheValues == {"test-api-key-value", ""}

CacheBackends == {"memory", "gcp"}

CacheVersions == {Undefined, Some("latest"), Some("1")}

\* new SecretCache(ttlMs): no TTL, and the TTLs 0 and CacheTtl
CacheTtls == {Undefined, Some(0), Some(CacheTtl)}

InitCache ==
  /\ ttlMs \in CacheTtls
  /\ cache = EmptyMap
  /\ now = 0
  /\ ret = NoOp
  /\ options = Undefined
  /\ backends = <<>>
  /\ secrets = EmptyMap
  /\ calls = [c \in CallIds |-> IdleCall]
  /\ microtasks = <<>>
  /\ last = Undefined
  /\ firstValue = EmptyMap
  /\ quietValue = EmptyMap
  /\ cleared = FALSE
  /\ writer = EmptyMap
  /\ registry = <<>>
  /\ val = IdleValidation

NextCache ==
  \/ \E backend \in CacheBackends, name \in SecretNames, value \in CacheValues,
        version \in CacheVersions : CacheSetOp(backend, name, value, version)
  \/ \E backend \in CacheBackends, name \in SecretNames, version \in CacheVersions :
        CacheGetOp(backend, name, version)
  \/ \E backend \in CacheBackends, name \in SecretNames, version \in CacheVersions :
        CacheHasOp(backend, name, version)
  \/ \E backend \in CacheBackends, name \in SecretNames, version \in CacheVersions :
        CacheDeleteOp(backend, name, version)
  \/ CacheClearOp
  \/ CacheSizeOp
  \/ Tick

SpecCache == InitCache /\ [][NextCache]_vars

----------------------------------------------------------------------------
(* Properties of the resolver (Spec) *)

\* C1 as stated: with caching enabled, between a clearCache (or a TTL expiry
\* of the entry) and the next, every successful get for a cache key returns
\* the value of the first get that succeeded for that key.
C1_FirstValueKept ==
  (/\ last # Undefined
   /\ options.cacheEnabled # Some(FALSE)
   /\ last[1].result # Undefined
   /\ last[1].result[1].ok
   /\ last[1].expectFirst # Undefined)
  => last[1].result[1].value = last[1].expectFirst[1]

\* C1 (amended): with caching enabled and no TTL expiry, once a get for a
\* cache key has succeeded while no other get for that key was suspended on a
\* backend fetch, every later get for the key is a cache hit (no backend call)
\* returning that value, whatever the backend holds by then, until clearCache.
C1_QuietValueKept ==
  (last # Undefined /\ last[1].expectQuiet # Undefined)
  => /\ last[1].event = "hit"
     /\ last[1].fetches = 0
     /\ last[1].result[1].ok
     /\ last[1].result[1].value = last[1].expectQuiet[1]

\* A cache hit returns the settled value although the backend now holds another
C1_Witness ==
  /\ last # Undefined
  /\ last[1].event = "hit"
  /\ last[1].expectQuiet # Undefined
  /\ last[1].held # Undefined
  /\ last[1].held[1] # last[1].expectQuiet[1]

\* C2 as stated: the first get called after clearCache has returned yields
\* the value the (in-memory) backend holds when that get is called, in every
\* interleaving with gets that were suspended when clearCache ran.
C2_FreshAfterClear ==
  (/\ last # Undefined
   /\ last[1].afterClear
   /\ last[1].result # Undefined
   /\ last[1].result[1].ok
   /\ last[1].held # Undefined)
  => last[1].result[1].value = last[1].held[1]

\* C3: with cacheEnabled = false the cache stays empty and gets no TTL, no
\* get reads the cache or is answered from it, every get that reaches a
\* backend calls it once, and what it returns is what the backend held when
\* it was called.
C3_NoCaching ==
  options.cacheEnabled = Some(FALSE)
  => /\ CacheSize(cache) = 0
     /\ ttlMs = Undefined
     /\ last # Undefined
        => /\ last[1].event # "hit"
           /\ ~last[1].cacheRead
           /\ last[1].event \in {"suspended", "resumed"}
              => last[1].fetches = 1 /\ last[1].request # Undefined
           /\ (last[1].event = "resumed" /\ last[1].backend[1].kind = "memory")
              => /\ last[1].result[1].ok <=> last[1].held # Undefined
                 /\ last[1].result[1].ok
                    => last[1].result[1].value = last[1].held[1]

\* Caching is off, a cacheTTL is configured and has run out, and a get returns
\* the value the backend was changed to
C3_Witness ==
  /\ options.cacheEnabled = Some(FALSE)
  /\ options.cacheTTL # Undefined
  /\ now > options.cacheTTL[1]
  /\ last # Undefined
  /\ last[1].event = "resumed"
  /\ last[1].result[1].ok
  /\ last[1].result[1].value = "modified-value"

\* The step invokes get or getLatest
GetInvoked == last' # Undefined /\ last'[1].req # Undefined

\* C7: a get targets the backend registered under backendName, or under
\* defaultBackend when none is given; if the table has no such name the get
\* fails with an error naming the requested backend and listing the registered
\* names, no backend is called and the cache and the pending calls are as before.
C7_Step ==
  GetInvoked
  => LET req == last'[1].req[1]
         requested == OrElse(req.backendName, options.defaultBackend)
         target == TableGet(backends, requested)
     IN IF target = Undefined
        THEN /\ last'[1].event = "rejected"
             /\ ~last'[1].result[1].ok
             /\ last'[1].result[1].error.type = "Error"
             /\ Contains(last'[1].result[1].error.message,
                         <<"Unknown secret backend: '", requested>>)
             /\ Contains(last'[1].result[1].error.message,
                         <<"'. Available backends: ">>
                           \o Join(TableKeys(backends), ", "))
             /\ last'[1].fetches = 0
             /\ last'[1].request = Undefined
             /\ cache' = cache
             /\ calls' = calls
             /\ microtasks' = microtasks
        ELSE /\ last'[1].event # "rejected"
             /\ last'[1].backend = target
             /\ last'[1].event = "suspended"
                => last'[1].request[1].backend = target[1].id

C7_BackendTargeting == [][C7_Step]_vars

\* A get naming an unregistered backend is rejected while a custom backend is
\* registered beside the built-in one and the cache holds an entry
C7_Witness ==
  /\ last # Undefined
  /\ last[1].event = "rejected"
  /\ Len(backends) > 1
  /\ CacheSize(cache) > 0

\* C8: when the backend's get fails, the resolver's get fails with that very
\* error, after exactly one backend call.
C8_ErrorsPropagate ==
  (last # Undefined /\ last[1].thrown # Undefined)
  => /\ last[1].event = "resumed"
     /\ last[1].result = Some(Err(last[1].thrown[1]))
     /\ last[1].fetches = 1

\* A get fails with the opaque error the GCP client rejected with
C8_Witness ==
  /\ last # Undefined
  /\ last[1].thrown # Undefined
  /\ last[1].thrown[1].type = "GrpcError"
  /\ ~last[1].result[1].ok

\* The backend names callers pass
RequestBackends ==
  {Undefined, Some("memory"), Some("gcp"), Some("custom"), Some("unknown")}

\* The spellings of the latest version
LatestForms == {"omitted", "latest", "getLatest"}

\* C9: in every state, for every name and backend, get with the version
\* omitted, get with "latest" and getLatest do the same (same backend, same
\* requested version, same cache entry, same hit or miss); and every such call
\* made uses the cache key of "latest" and asks the backend for "latest".
C9_LatestEquivalent ==
  /\ \A name \in SecretNames, backendName \in RequestBackends :
       /\ getStart(name, Undefined, backendName) = getStart(name, Some("latest"), backendName)
       /\ getLatestStart(name, backendName) = getStart(name, Some("latest"), backendName)
  /\ (/\ last # Undefined
      /\ last[1].event \in {"hit", "suspended"}
      /\ Form(last[1].req[1]) \in LatestForms)
     => /\ last[1].key = Some(getCacheKey(last[1].backend[1].name, last[1].req[1].name,
                                          Some("latest")))
        /\ last[1].event = "suspended" => last[1].request[1].version = "latest"

\* getLatest is answered from the entry a get with the version omitted wrote
C9_Witness ==
  /\ last # Undefined
  /\ last[1].event = "hit"
  /\ last[1].req[1].op = "getLatest"
  /\ last[1].wroteBy = Some("omitted")

----------------------------------------------------------------------------
(* Properties of startup validation (SpecStartup) *)

Failed(outcome) == ~outcome.ok

\* C4: validation calls get for every requirement of the registry, in order;
\* each failure is pushed to the errors and the scan goes on; the outcome of
\* validation is decided only once every requirement has been attempted and
\* has settled.
C4_AllAttempted ==
  val.ran
  => /\ Len(val.attempted) <= Len(registry)
     /\ val.attempted = SubSeq(registry, 1, Len(val.attempted))
     /\ Len(val.outcomes) <= Len(val.attempted)
     /\ Len(val.errors) = Len(SelectSeq(val.outcomes, Failed))
     /\ \A i \in 1..Len(val.errors) :
          val.errors[i] = SelectSeq(val.outcomes, Failed)[i].error
     /\ val.result # Undefined
        => val.attempted = registry /\ Len(val.outcomes) = Len(registry)

\* Validation has ended after four failures of four kinds
C4_Witness ==
  /\ val.pc = "done"
  /\ Len(val.errors) = 4
  /\ {val.errors[i].type : i \in 1..4}
       = {"SecretNotFoundError", "SecretAccessDeniedError", "Error", "GrpcError"}
  /\ val.errors[1].type = "Error"

\* C5: validation succeeds iff every requirement resolved (with an empty
\* registry: success and no backend call); otherwise it throws one error whose
\* message states the number of failed requirements and contains the message
\* of each failure.
C5_Aggregate ==
  (val.pc = "done" /\ val.ran)
  => LET failed == SelectSeq(val.outcomes, Failed) IN
     /\ val.result[1].ok
        <=> (Len(val.outcomes) = Len(registry) /\ Len(failed) = 0)
     /\ Len(registry) = 0 => val.result[1].ok /\ val.fetches = 0
     /\ ~val.result[1].ok
        => /\ val.result[1].error.type = "Error"
           /\ Contains(val.result[1].error.message,
                       <<"Failed to validate ", ToString(Len(failed)), " secret(s):\n">>)
           /\ Cardinality({i \in 1..Len(val.result[1].error.message) :
                             val.result[1].error.message[i] = "  - "}) = Len(failed)
           /\ \A i \in 1..Len(failed) :
                Contains(val.result[1].error.message,
                         <<"  - ">> \o failed[i].error.message)

\* Validation failed on two requirements after another had resolved
C5_Witness ==
  /\ val.pc = "done"
  /\ ~val.result[1].ok
  /\ Len(val.outcomes) = 3
  /\ val.outcomes[1].ok
  /\ Len(val.errors) = 2

\* C6: onModuleInit runs validation iff validateOnStartup is not false (unset
\* counts as enabled); when it is false, onModuleInit ends at once and
\* successfully, with no get and no backend fetch, whatever the registry holds.
C6_Gate ==
  /\ val.pc # "notStarted" => (val.ran <=> options.validateOnStartup # Some(FALSE))
  /\ (options.validateOnStartup = Some(FALSE) /\ val.pc # "notStarted")
     => /\ val.pc = "done"
        /\ val.result = Some(Ok("void"))
        /\ val.fetches = 0
        /\ val.attempted = <<>>
        /\ calls[1].pc = "idle"

\* validateOnStartup is false, the registry holds a secret no backend has,
\* and the module has initialised
C6_Witness ==
  /\ options.validateOnStartup = Some(FALSE)
  /\ val.pc = "done"
  /\ \E i \in 1..Len(registry) : registry[i].name = "missing-secret"

----------------------------------------------------------------------------
(* Properties of the SecretCache (SpecCache) *)

\* The version spellings that mean the latest version
LatestVersions == {Undefined, Some("latest")}

\* C10: right after set(backend, name, value) with the version omitted or
\* "latest", get(backend, name) returns value, with the version omitted and
\* with "latest" alike.
C10_RoundTrip ==
  (ret.op = "set" /\ ret.version \in LatestVersions)
  => \A version \in LatestVersions :
       CacheGet(cache, ret.backend, ret.name, version).ret = ret.value

\* A set with the version omitted, at a later time, in a cache with a zero
\* TTL that holds another entry too
C10_Witness ==
  /\ ret.op = "set"
  /\ ret.version = Undefined
  /\ ttlMs = Some(0)
  /\ now > 0
  /\ CacheSize(cache) > 1

\* The age of the entry stored under a key
Elapsed(key) == now - cache[key].cachedAt

\* C11: for every stored entry, get returns its value when no TTL is
\* configured or now - cachedAt <= ttlMs, and absent when now - cachedAt >
\* ttlMs; and a get that has just run returned the stored value of an entry
\* within its TTL, or absent with no entry left under its key.
C11_Ttl ==
  /\ \A backend \in CacheBackends, name \in SecretNames, version \in CacheVersions :
       LET key == getCacheKey(backend, name, version) IN
       key \in DOMAIN cache
       => CacheGet(cache, backend, name, version).ret
            = IF ttlMs = Undefined \/ Elapsed(key) <= ttlMs[1]
              THEN Some(cache[key].value)
              ELSE Undefined
  /\ ret.op = "get"
     => LET key == getCacheKey(ret.backend, ret.name, ret.version) IN
        IF ret.result = Undefined
        THEN key \notin DOMAIN cache
        ELSE /\ key \in DOMAIN cache
             /\ ret.result = Some(cache[key].value)
             /\ ttlMs # Undefined => Elapsed(key) <= ttlMs[1]

\* A get has returned the value of an entry whose age equals the TTL, while
\* another stored entry is older than the TTL
C11_Witness ==
  /\ ttlMs = Some(CacheTtl)
  /\ ret.op = "get"
  /\ ret.result # Undefined
  /\ Elapsed(getCacheKey(ret.backend, ret.name, ret.version)) = CacheTtl
  /\ \E key \in DOMAIN cache : Elapsed(key) > CacheTtl

----------------------------------------------------------------------------
(* A SecretCache whose callers pass names that contain the key separator *)

\* The (backend, name, version) triples callers use: the cache test's
\* (backends and versions apart), and a backend and a name with a ':'
KeyTriples ==
  { <<"gcp", "api-key", Undefined>>,
    <<"gcp", "api-key", Some("1")>>,
    <<"memory", "api-key", Undefined>>,
    <<"gcp", "prod:api-key", Undefined>>,
    <<"gcp:prod", "api-key", Undefined>> }

NextCacheKeys ==
  \/ \E t \in KeyTriples, value \in SecretValues : CacheSetOp(t[1], t[2], value, t[3])
  \/ \E t \in KeyTriples : CacheGetOp(t[1], t[2], t[3])
  \/ \E t \in KeyTriples : CacheDeleteOp(t[1], t[2], t[3])

SpecCacheKeys == InitCache /\ [][NextCacheKeys]_vars

\* A triple with its version defaulted
Defaulted(t) == <<t[1], t[2], OrElse(t[3], "latest")>>

\* C12 as stated: a set or a delete on one (backend, name, version) triple
\* leaves what get returns for every other triple as it was.
C12_Step ==
  ret'.op \in {"set", "delete"}
  => \A u \in KeyTriples :
       Defaulted(u) # Defaulted(<<ret'.backend, ret'.name, ret'.version>>)
       => CacheGet(cache', u[1], u[2], u[3]).ret = CacheGet(cache, u[1], u[2], u[3]).ret

C12_KeysSeparate == [][C12_Step]_vars

----------------------------------------------------------------------------
(* Further properties of the SecretCache (SpecCache) *)

\* C13: delete returns true iff an entry was stored under the key (expired or
\* not), removes that entry and no other, and a get right after it returns
\* absent; clear leaves size 0 and every key absent.
C13_Step ==
  /\ ret'.op = "delete"
     => LET key == getCacheKey(ret'.backend, ret'.name, ret'.version) IN
        /\ ret'.result = Some(key \in DOMAIN cache)
        /\ DOMAIN cache' = DOMAIN cache \ {key}
        /\ \A k \in DOMAIN cache' : cache'[k] = cache[k]
        /\ CacheGet(cache', ret'.backend, ret'.name, ret'.version).ret = Undefined
  /\ ret'.op = "clear"
     => /\ CacheSize(cache') = 0
        /\ \A backend \in CacheBackends, name \in SecretNames, version \in CacheVersions :
             CacheGet(cache', backend, name, version).ret = Undefined

C13_DeleteClear == [][C13_Step]_vars

\* A delete has returned true and left other entries stored
C13_Witness ==
  /\ ret.op = "delete"
  /\ ret.result = Some(TRUE)
  /\ CacheSize(cache) > 1

----------------------------------------------------------------------------
(* The SecretRegistry on its own *)

\* The requirement SecretRegistry.register returns
registered(name, opts) ==
  [name |-> name,
   version |-> OptionOf(opts, "version"),
   backend |-> OptionOf(opts, "backend"),
   token |-> getSecretToken(name, opts)]

\* SecretRegistry.clear
registryClear(reg) == <<>>

\* SecretRegistry.size
registrySize(reg) == Len(reg)

\* The record of a registry or module operation and what it returned
RegistryOp(op, name, opts, result) ==
  [op |-> op, name |-> name, opts |-> opts, result |-> result]

RegistryRegisterOp(name, opts) ==
  /\ registry' = register(registry, name, opts)
  /\ ret' = RegistryOp("register", name, opts, registered(name, opts))
  /\ UNCHANGED <<options, ttlMs, cache, now, backends, secrets, calls, microtasks, last,
                 firstValue, quietValue, cleared, writer, val>>

RegistryGetAllOp ==
  /\ ret' = RegistryOp("getAll", "", Undefined, getAll(registry))
  /\ UNCHANGED <<options, ttlMs, cache, now, backends, secrets, calls, microtasks, last,
                 firstValue, quietValue, cleared, writer, registry, val>>

RegistryClearOp ==
  /\ registry' = registryClear(registry)
  /\ ret' = RegistryOp("clear", "", Undefined, Undefined)
  /\ UNCHANGED <<options, ttlMs, cache, now, backends, secrets, calls, microtasks, last,
                 firstValue, quietValue, cleared, writer, val>>

RegistrySizeOp ==
  /\ ret' = RegistryOp("size", "", Undefined, registrySize(registry))
  /\ UNCHANGED <<options, ttlMs, cache, now, backends, secrets, calls, microtasks, last,
                 firstValue, quietValue, cleared, writer, registry, val>>

\* What decorators declare: one secret spelled three ways (version omitted,
\* 'latest', backend 'default'), a versioned GCP secret, and two secrets whose
\* names and backends contain the token separator
RegistryInputs ==
  { <<"api-key", Undefined>>,
    <<"api-key", InjectSecretOptions(Some("latest"), Undefined)>>,
    <<"api-key", InjectSecretOptions(Undefined, Some("default"))>>,
    <<"api-key", InjectSecretOptions(Some("2"), Some("gcp"))>>,
    <<"api_key", InjectSecretOptions(Undefined, Some("memory"))>>,
    <<"key", InjectSecretOptions(Undefined, Some("memory_api"))>> }

InitRegistry ==
  /\ registry = <<>>
  /\ ret = NoOp
  /\ options = Undefined
  /\ ttlMs = Undefined
  /\ cache = EmptyMap
  /\ now = 0
  /\ backends = <<>>
  /\ secrets = EmptyMap
  /\ calls = [c \in CallIds |-> IdleCall]
  /\ microtasks = <<>>
  /\ last = Undefined
  /\ firstValue = EmptyMap
  /\ quietValue = EmptyMap
  /\ cleared = FALSE
  /\ writer = EmptyMap
  /\ val = IdleValidation

NextRegistry ==
  \/ \E r \in RegistryInputs : RegistryRegisterOp(r[1], r[2])
  \/ RegistryGetAllOp
  \/ RegistryClearOp
  \/ RegistrySizeOp

SpecRegistry == InitRegistry /\ [][NextRegistry]_vars

\* C14: a register returns a requirement carrying the token derived from its
\* arguments and stores exactly that requirement under the token: the size
\* grows by one if the token was new and stays if it was not (the old
\* requirement is overwritten in place), every other entry is as before, and
\* no two entries share a token.
C14_Step ==
  ret'.op = "register"
  => LET token == getSecretToken(ret'.name, ret'.opts)
         known == \E i \in 1..Len(registry) : registry[i].token = token
     IN /\ ret'.result.token = token
        /\ ret'.result.name = ret'.name
        /\ Len(registry') = IF known THEN Len(registry) ELSE Len(registry) + 1
        /\ \A i \in 1..Len(registry') :
             IF registry'[i].token = token
             THEN registry'[i] = ret'.result
             ELSE i <= Len(registry) /\ registry'[i] = registry[i]
        /\ \A i, j \in 1..Len(registry') :
             registry'[i].token = registry'[j].token => i = j
        /\ Cardinality({i \in 1..Len(registry') : registry'[i].token = token}) = 1

C14_RegisterIdempotent == [][C14_Step]_vars

\* A requirement registered before another has been registered again, with
\* its version now spelled out, and the registry still holds two entries
C14_Witness ==
  /\ ret.op = "register"
  /\ Len(registry) = 2
  /\ registry[1] = ret.result
  /\ ret.result.version = Some("latest")

\* The backend, name and version a requirement denotes for a resolver whose
\* default backend is `defaultBackend`
Denotes(req, defaultBackend) ==
  <<OrElse(req.backend, defaultBackend), req.name, OrElse(req.version, "latest")>>

DefaultBackends == {"memory", "gcp"}

\* C15: a register whose token the registry already holds denotes the same
\* backend, name and version as the requirement held under that token,
\* whatever the resolver's default backend is.
C15_Step ==
  ret'.op = "register"
  => \A i \in 1..Len(registry) :
       registry[i].token = ret'.result.token
       => \A d \in DefaultBackends : Denotes(registry[i], d) = Denotes(ret'.result, d)

C15_TokenUnique == [][C15_Step]_vars

----------------------------------------------------------------------------
(* SecretManagerModule: the entry points that build the dynamic module *)

\* createSecretProviders: one provider per registered requirement, keyed by
\* its token; the factory is recorded as the get it makes on the service
createSecretProviders(reg) ==
  [i \in 1..Len(getAll(reg)) |->
     [provide |-> getAll(reg)[i].token,
      useFactory |-> GetRequest("get", getAll(reg)[i].name, getAll(reg)[i].version,
                                getAll(reg)[i].backend)]]

\* createAsyncProviders: throws unless one way of building the options is given
createAsyncProviders(asyncOptions) ==
  IF asyncOptions \in {"useExisting", "useFactory", "useClass"}
  THEN Ok(asyncOptions)
  ELSE Err(<<"Invalid SecretManagerModuleAsyncOptions: must provide useExisting, useClass, or useFactory">>)

\* forRoot: the registry as it leaves it and the module it returns
forRoot(reg, opts) ==
  [registry |-> reg,
   module |-> Ok([options |-> Some(opts), providers |-> createSecretProviders(reg)])]

forRootAsync(reg, asyncOptions) ==
  [registry |-> reg,
   module |-> IF createAsyncProviders(asyncOptions).ok
              THEN Ok([options |-> Undefined, providers |-> createSecretProviders(reg)])
              ELSE createAsyncProviders(asyncOptions)]

\* forTesting clears the registry, then calls forRoot
forTesting(reg, inMemorySecrets) ==
  forRoot(registryClear(reg),
          [defaultBackend |-> "memory",
           inMemorySecrets |-> Some(inMemorySecrets),
           validateOnStartup |-> Some(FALSE),
           cacheEnabled |-> Some(FALSE)])

ForRoot(opts) ==
  \E built \in {forRoot(registry, opts)} :
    /\ registry' = built.registry
    /\ ret' = RegistryOp("forRoot", "", Undefined, built.module)
    /\ UNCHANGED <<options, ttlMs, cache, now, backends, secrets, calls, microtasks, last,
                   firstValue, quietValue, cleared, writer, val>>

ForRootAsync(asyncOptions) ==
  \E built \in {forRootAsync(registry, asyncOptions)} :
    /\ registry' = built.registry
    /\ ret' = RegistryOp("forRootAsync", "", Undefined, built.module)
    /\ UNCHANGED <<options, ttlMs, cache, now, backends, secrets, calls, microtasks, last,
                   firstValue, quietValue, cleared, writer, val>>

ForTesting(inMemorySecrets) ==
  \E built \in {forTesting(registry, inMemorySecrets)} :
    /\ registry' = built.registry
    /\ ret' = RegistryOp("forTesting", "", Undefined, built.module)
    /\ UNCHANGED <<options, ttlMs, cache, now, backends, secrets, calls, microtasks, last,
                   firstValue, quietValue, cleared, writer, val>>

AsyncOptions == {"useFactory", "useExisting", "useClass", "none"}

TestingSecrets == {EmptyMap, "api-key" :> "test-api-key"}

NextModule ==
  \/ \E r \in RegistryInputs : RegistryRegisterOp(r[1], r[2])
  \/ \E opts \in ServiceOptions : ForRoot(opts)
  \/ \E asyncOptions \in AsyncOptions : ForRootAsync(asyncOptions)
  \/ \E inMemorySecrets \in TestingSecrets : ForTesting(inMemorySecrets)

SpecModule == InitRegistry /\ [][NextModule]_vars

\* C16: when an entry point returns a module, every requirement that was in
\* the registry before the call has a provider in that module, keyed by the
\* requirement's token, whose factory is get(name, version, backend).
C16_Step ==
  (ret'.op \in {"forRoot", "forRootAsync", "forTesting"} /\ ret'.result.ok)
  => \A i \in 1..Len(registry) :
       \E p \in 1..Len(ret'.result.value.providers) :
         /\ ret'.result.value.providers[p].provide = registry[i].token
         /\ ret'.result.value.providers[p].useFactory
              = GetRequest("get", registry[i].name, registry[i].version, registry[i].backend)

C16_ProvidersForRegistered == [][C16_Step]_vars

----------------------------------------------------------------------------
(* The backend table of a running service *)

\* SecretManagerService.registerBackend, the call recorded
RegisterBackendOp(backend) ==
  /\ backends' = registerBackend(backends, backend)
  /\ ret' = [op |-> "registerBackend", backend |-> backend]
  /\ last' = Undefined
  /\ UNCHANGED <<options, ttlMs, cache, now, secrets, calls, microtasks,
                 firstValue, quietValue, cleared, writer, registry, val>>

\* SecretManagerService.getInMemoryBackend
GetInMemoryBackendOp ==
  /\ ret' = [op |-> "getInMemoryBackend", result |-> getInMemoryBackend(backends)]
  /\ last' = Undefined
  /\ UNCHANGED <<options, ttlMs, cache, now, backends, secrets, calls, microtasks,
                 firstValue, quietValue, cleared, writer, registry, val>>

\* Backends a caller registers: one under a new name, two under the name the
\* built-in in-memory backend has
BackendInputs == {CustomBackend, OtherMemoryBackend, RemoteBackend}

\* Gets by the default backend and by the names registrations use
BackendGetRequests ==
  { GetRequest("get", "api-key", Undefined, Undefined),
    GetRequest("get", "api-key", Undefined, Some("memory")),
    GetRequest("get", "api-key", Undefined, Some("custom")) }

\* Caching on without a TTL, or caching off: time plays no part
BackendOptions ==
  { ModuleOptions("memory", Some(TRUE), Undefined, Some(FALSE), Undefined),
    ModuleOptions("gcp", Some(FALSE), Undefined, Some(FALSE), Some("test-project")) }

InitBackends ==
  /\ options \in BackendOptions
  /\ ttlMs = ConstructorTtl(options)
  /\ cache = EmptyMap
  /\ now = 0
  /\ backends = initializeBackends(options)
  /\ secrets = InitialSecrets(options)
  /\ calls = [c \in CallIds |-> IdleCall]
  /\ microtasks = <<>>
  /\ last = Undefined
  /\ firstValue = EmptyMap
  /\ quietValue = EmptyMap
  /\ cleared = FALSE
  /\ writer = EmptyMap
  /\ ret = NoOp
  /\ registry = <<>>
  /\ val = IdleValidation

NextBackends ==
  \/ \E backend \in BackendInputs : RegisterBackendOp(backend)
  \/ GetInMemoryBackendOp
  \/ \E c \in CallIds, req \in BackendGetRequests : GetStart(c, req)
  \/ GetResume
  \/ \E c \in CallIds, response \in GcpResponses : BackendRespond(c, response)

SpecBackends == InitBackends /\ [][NextBackends]_vars

\* C17: once registerBackend(b) has been called the table holds b under
\* b.name and every other name holds what it held, in the same order; as long
\* as b is the latest registration, a get whose backend name resolves to b.name
\* is never rejected, targets b, and a fetch it makes is made on b (for an
\* in-memory b the outcome is what b's own store gives).
C17_Step ==
  /\ ret'.op = "registerBackend"
     => /\ TableGet(backends', ret'.backend.name) = Some(ret'.backend)
        /\ \A i \in 1..Len(backends) :
             /\ backends'[i].name = backends[i].name
             /\ backends[i].name # ret'.backend.name => backends'[i] = backends[i]
        /\ Len(backends') = IF TableGet(backends, ret'.backend.name) = Undefined
                            THEN Len(backends) + 1 ELSE Len(backends)
  /\ (GetInvoked /\ ret.op = "registerBackend"
      /\ OrElse(last'[1].req[1].backendName, options.defaultBackend) = ret.backend.name)
     => /\ last'[1].event # "rejected"
        /\ last'[1].backend = Some(ret.backend)
        /\ last'[1].event = "suspended"
           => /\ last'[1].request[1].backend = ret.backend.id
              /\ \A c \in CallIds :
                   (calls'[c] # calls[c] /\ ret.backend.kind = "memory")
                   => calls'[c].outcome
                        = Some(MemGet(secrets[ret.backend.id], ret.backend.name,
                                      last'[1].req[1].name, Some("latest")))

C17_RegisterBackend == [][C17_Step]_vars

\* A second in-memory backend has replaced the built-in one under 'memory'
\* while the table holds another backend beside it, and a get has fetched
\* its value from the replacement
C17_Witness ==
  /\ ret.op = "registerBackend"
  /\ ret.backend = OtherMemoryBackend
  /\ Len(backends) > 1
  /\ last # Undefined
  /\ last[1].event = "resumed"
  /\ last[1].request[1].backend = OtherMemoryBackend.id
  /\ last[1].result[1] = Ok("other-value")

\* C18: the table holds an in-memory backend under 'memory', and that is what
\* getInMemoryBackend returns.
C18_InMemoryPresent ==
  /\ getInMemoryBackend(backends) # Undefined
  /\ getInMemoryBackend(backends)[1].kind = "memory"
  /\ ret.op = "getInMemoryBackend"
     => ret.result # Undefined /\ ret.result[1].kind = "memory"

----------------------------------------------------------------------------
(* An InMemorySecretBackend on its own *)

\* The record of a backend operation and what it returned
MemOp(op, name, version, value, result) ==
  [op |-> op, name |-> name, version |-> version, value |-> value, result |-> result]

\* The store of the backend under test
MemStore == secrets[MemoryBackend.id]

MemSetOp(name, value, version) ==
  /\ secrets' = [secrets EXCEPT ![MemoryBackend.id] = MemSet(@, name, value, version)]
  /\ ret' = MemOp("set", name, version, Some(value), Undefined)
  /\ UNCHANGED <<options, ttlMs, cache, now, backends, calls, microtasks, last,
                 firstValue, quietValue, cleared, writer, registry, val>>

MemGetOp(name, version) ==
  /\ ret' = MemOp("get", name, version, Undefined,
                  MemGet(MemStore, MemoryBackend.name, name, version))
  /\ UNCHANGED <<options, ttlMs, cache, now, backends, secrets, calls, microtasks, last,
                 firstValue, quietValue, cleared, writer, registry, val>>

MemGetLatestOp(name) ==
  /\ ret' = MemOp("getLatest", name, Undefined, Undefined,
                  MemGetLatest(MemStore, MemoryBackend.name, name))
  /\ UNCHANGED <<options, ttlMs, cache, now, backends, secrets, calls, microtasks, last,
                 firstValue, quietValue, cleared, writer, registry, val>>

MemHasOp(name, version) ==
  /\ ret' = MemOp("has", name, version, Undefined, MemHas(MemStore, name, version))
  /\ UNCHANGED <<options, ttlMs, cache, now, backends, secrets, calls, microtasks, last,
                 firstValue, quietValue, cleared, writer, registry, val>>

MemDeleteOp(name, version) ==
  \E d \in {MemDelete(MemStore, name, version)} :
    /\ secrets' = [secrets EXCEPT ![MemoryBackend.id] = d.store]
    /\ ret' = MemOp("delete", name, version, Undefined, d.ret)
    /\ UNCHANGED <<options, ttlMs, cache, now, backends, calls, microtasks, last,
                   firstValue, quietValue, cleared, writer, registry, val>>

MemClearOp ==
  /\ secrets' = [secrets EXCEPT ![MemoryBackend.id] = MemClear(@)]
  /\ ret' = MemOp("clear", "", Undefined, Undefined, Undefined)
  /\ UNCHANGED <<options, ttlMs, cache, now, backends, calls, microtasks, last,
                 firstValue, quietValue, cleared, writer, registry, val>>

MemSizeOp ==
  /\ ret' = MemOp("size", "", Undefined, Undefined, MemSize(MemStore))
  /\ UNCHANGED <<options, ttlMs, cache, now, backends, secrets, calls, microtasks, last,
                 firstValue, quietValue, cleared, writer, registry, val>>

MemGetSecretNamesOp ==
  /\ ret' = MemOp("getSecretNames", "", Undefined, Undefined, MemGetSecretNames(MemStore))
  /\ UNCHANGED <<options, ttlMs, cache, now, backends, secrets, calls, microtasks, last,
                 firstValue, quietValue, cleared, writer, registry, val>>

MemNames == {"api-key", "non-existent"}

\* The version omitted, 'latest' and a numbered one
MemVersions == {Undefined, Some("latest"), Some("1")}

\* Values, the empty string among them
MemValues == {"latest-value", "v1-value", ""}

\* What the backend is constructed with
MemInitialSecrets == {Undefined, Some("api-key" :> "secret-value")}

InitMemory ==
  /\ \E initialSecrets \in MemInitialSecrets :
       secrets = [id \in {MemoryBackend.id} |-> MemNew(initialSecrets)]
  /\ ret = NoOp
  /\ options = Undefined
  /\ ttlMs = Undefined
  /\ cache = EmptyMap
  /\ now = 0
  /\ backends = <<>>
  /\ calls = [c \in CallIds |-> IdleCall]
  /\ microtasks = <<>>
  /\ last = Undefined
  /\ firstValue = EmptyMap
  /\ quietValue = EmptyMap
  /\ cleared = FALSE
  /\ writer = EmptyMap
  /\ registry = <<>>
  /\ val = IdleValidation

NextMemory ==
  \/ \E name \in MemNames, value \in MemValues, version \in MemVersions :
       MemSetOp(name, value, version)
  \/ \E name \in MemNames, version \in MemVersions : MemGetOp(name, version)
  \/ \E name \in MemNames : MemGetLatestOp(name)
  \/ \E name \in MemNames, version \in MemVersions : MemHasOp(name, version)
  \/ \E name \in MemNames, version \in MemVersions : MemDeleteOp(name, version)
  \/ MemClearOp
  \/ MemSizeOp
  \/ MemGetSecretNamesOp

SpecMemory == InitMemory /\ [][NextMemory]_vars

\* What get answers for a name and a version in a store: the value, or nothing
Answer(store, name, version) ==
  IF MemGet(store, MemoryBackend.name, name, version).ok
  THEN Some(MemGet(store, MemoryBackend.name, name, version).value)
  ELSE Undefined

\* The name and version a call is about, the version defaulted
Slot(name, version) == <<name, OrElse(version, "latest")>>

\* C19: get answers with exactly what was last set under (name, version),
\* 'latest' standing for an omitted version, and with nothing once that was
\* deleted: a set makes get answer its value under its own name and version
\* and changes the answer under no other; a delete of a version silences that
\* version only, a delete without a version the whole name, a clear everything;
\* a get returns the answer the store holds at that moment.
C19_Step ==
  /\ ret'.op = "set"
     => \A n \in MemNames, v \in MemVersions :
          Answer(secrets'[MemoryBackend.id], n, v)
            = IF Slot(n, v) = Slot(ret'.name, ret'.version)
              THEN ret'.value ELSE Answer(MemStore, n, v)
  /\ ret'.op = "delete"
     => \A n \in MemNames, v \in MemVersions :
          Answer(secrets'[MemoryBackend.id], n, v)
            = IF n = ret'.name /\ (ret'.version = Undefined
                                   \/ Slot(n, v) = Slot(n, ret'.version))
              THEN Undefined ELSE Answer(MemStore, n, v)
  /\ ret'.op = "clear"
     => \A n \in MemNames, v \in MemVersions :
          Answer(secrets'[MemoryBackend.id], n, v) = Undefined
  /\ ret'.op \in {"get", "getLatest"}
     => /\ ret'.result.ok
           <=> /\ ret'.name \in DOMAIN MemStore
               /\ OrElse(ret'.version, "latest") \in DOMAIN MemStore[ret'.name]
        /\ ret'.result.ok
           => ret'.result.value = MemStore[ret'.name][OrElse(ret'.version, "latest")]

C19_NoPromotion == [][C19_Step]_vars

\* A get by 'latest' has failed for a name that holds a value under '1' only
C19_Witness ==
  /\ ret.op = "get"
  /\ ret.version \in {Undefined, Some("latest")}
  /\ ~ret.result.ok
  /\ ret.name \in DOMAIN MemStore
  /\ DOMAIN MemStore[ret.name] = {"1"}

\* C20: a get of a name the store does not hold, or of a version the name
\* does not hold ('latest' when omitted), fails with a SecretNotFoundError that
\* carries the name asked for and the backend name 'memory'; no get changes
\* the store.
C20_Step ==
  ret'.op \in {"get", "getLatest"}
  => /\ secrets' = secrets
     /\ (ret'.name \notin DOMAIN MemStore
         \/ OrElse(ret'.version, "latest") \notin DOMAIN MemStore[ret'.name])
        => /\ ~ret'.result.ok
           /\ ret'.result.error.type = "SecretNotFoundError"
           /\ ret'.result.error.secretName = ret'.name
           /\ ret'.result.error.backend = "memory"
           /\ Contains(ret'.result.error.message,
                       <<"Secret '", ret'.name, "' not found in backend '", "memory", "'">>)

C20_NotFound == [][C20_Step]_vars

\* A get of version '1' has failed for a name that holds 'latest' only, while
\* the store holds nothing under the other name
C20_Witness ==
  /\ ret.op = "get"
  /\ ret.version = Some("1")
  /\ ~ret.result.ok
  /\ ret.name \in DOMAIN MemStore
  /\ DOMAIN MemStore[ret.name] = {"latest"}
  /\ "non-existent" \notin DOMAIN MemStore

\* The names under which get can retrieve some version
Retrievable(store) ==
  {n \in MemNames : \E v \in {"latest", "1"} : Answer(store, n, Some(v)) # Undefined}

\* C21: every name the store holds has at least one version, and size and
\* getSecretNames count exactly the names a get can retrieve a version of.
C21_NoEmptyVersions ==
  /\ \A n \in DOMAIN MemStore : DOMAIN MemStore[n] # {}
  /\ MemSize(MemStore) = Cardinality(Retrievable(MemStore))
  /\ MemGetSecretNames(MemStore) = Retrievable(MemStore)
  /\ ret.op = "size" => ret.result = Cardinality(Retrievable(MemStore))
  /\ ret.op = "getSecretNames" => ret.result = Retrievable(MemStore)

\* The only version of a name has been deleted by its version: the name is
\* gone and the store counts the one name left
C21_Witness ==
  /\ ret.op = "delete"
  /\ ret.version = Some("1")
  /\ ret.result = TRUE
  /\ ret.name \notin DOMAIN MemStore
  /\ MemSize(MemStore) = 1

\* C22: delete(name) removes every version of name; delete(name, v) removes
\* version v and leaves the other versions of name with their values; both
\* leave the other names alone and return true iff the store held what was
\* to be removed.
C22_Step ==
  ret'.op = "delete"
  => \E before \in {MemStore}, after \in {secrets'[MemoryBackend.id]} :
       /\ \A n \in DOMAIN before \ {ret'.name} : n \in DOMAIN after /\ after[n] = before[n]
       /\ DOMAIN after \subseteq DOMAIN before
       /\ IF ret'.version = Undefined
          THEN /\ ret'.name \notin DOMAIN after
               /\ ret'.result = (ret'.name \in DOMAIN before)
          ELSE /\ ret'.result = (/\ ret'.name \in DOMAIN before
                                 /\ ret'.version[1] \in DOMAIN before[ret'.name])
               /\ Answer(after, ret'.name, ret'.version) = Undefined
               /\ ret'.name \in DOMAIN before
                  => \A v \in DOMAIN before[ret'.name] \ {ret'.version[1]} :
                       Answer(after, ret'.name, Some(v)) = Some(before[ret'.name][v])
       /\ ~ret'.result => after = before

C22_Delete == [][C22_Step]_vars

\* Version '1' of a name has been deleted and its 'latest' is still held
C22_Witness ==
  /\ ret.op = "delete"
  /\ ret.version = Some("1")
  /\ ret.result = TRUE
  /\ ret.name \in DOMAIN MemStore
  /\ DOMAIN MemStore[ret.name] = {"latest"}

\* The latest step completed a get call: it returned or threw
GetCompleted == last # Undefined /\ last[1].event \in {"hit", "resumed", "rejected"}

\* C23: a get call that has completed has ended one span, with status OK if
\* the call returned a value and status ERROR with the error's message if it
\* failed; a span of a call that reached a backend carries the name and the
\* resolved version the backend was asked for and the backend's name.
C23_OneSpan ==
  GetCompleted
  => /\ last[1].span # Undefined
     /\ last[1].span[1].ended
     /\ last[1].span[1].status = IF last[1].result[1].ok THEN "OK" ELSE "ERROR"
     /\ ~last[1].result[1].ok => last[1].span[1].message = last[1].result[1].error.message
     /\ last[1].span[1].backend = last[1].backend[1].name
     /\ last[1].request # Undefined
        => /\ last[1].span[1].name = last[1].request[1].name
           /\ last[1].span[1].version = last[1].request[1].version

----------------------------------------------------------------------------
(* A GcpSecretManagerBackend on its own *)

\* A rejection whose error has a code and no message
GrpcRejectedBare(code) ==
  [error |-> Some([type |-> "GrpcError", code |-> code, secretName |-> "", backend |-> "",
                   message |-> <<>>]),
   payload |-> Undefined]

\* What client.accessSecretVersion can do: rejections with and without a
\* message, no payload, and text and byte payloads, empty ones among them
GcpOutcomes ==
  {GrpcRejected(code, "denied by policy") : code \in {5, 7, 14, 2}}
  \cup {GrpcRejectedBare(code) : code \in {5, 7, 14, 2}}
  \cup { GrpcPayload(Undefined),
         GrpcPayload(Some([type |-> "string", data |-> "g1"])),
         GrpcPayload(Some([type |-> "string", data |-> ""])),
         GrpcPayload(Some([type |-> "bytes", data |-> <<103, 50>>])),
         GrpcPayload(Some([type |-> "bytes", data |-> <<>>])) }

\* GcpSecretManagerBackend.get, the call and its outcome recorded
GcpGetOp(backend, name, version, response) ==
  /\ ret' = [op |-> "gcpGet", backend |-> backend, name |-> name, version |-> version,
             response |-> response,
             result |-> GcpGet(backend.name, name, version, response)]
  /\ UNCHANGED <<options, ttlMs, cache, now, backends, secrets, calls, microtasks, last,
                 firstValue, quietValue, cleared, writer, registry, val>>

NextGcp ==
  \E backend \in {GcpBackend, RemoteBackend}, name \in MemNames, version \in MemVersions,
     response \in GcpOutcomes :
    GcpGetOp(backend, name, version, response)

SpecGcp == InitRegistry /\ [][NextGcp]_vars

\* C24: code 5 gives a SecretNotFoundError, code 7 a SecretAccessDeniedError
\* whose reason is the transport message, any other rejection is thrown as it
\* came, no payload gives a SecretNotFoundError, and a payload that is there,
\* text or bytes, is returned as the string it holds.
C24_GcpMapping ==
  ret.op = "gcpGet"
  => IF ret.response.error # Undefined
     THEN /\ ~ret.result.ok
          /\ ret.response.error[1].code = 5
             => /\ ret.result.error.type = "SecretNotFoundError"
                /\ ret.result.error.secretName = ret.name
                /\ ret.result.error.backend = ret.backend.name
          /\ ret.response.error[1].code = 7
             => /\ ret.result.error.type = "SecretAccessDeniedError"
                /\ ret.result.error.secretName = ret.name
                /\ ret.result.error.backend = ret.backend.name
                /\ ret.result.error.reason
                     = IF ret.response.error[1].message = <<>> THEN Undefined
                       ELSE Some(ret.response.error[1].message[1])
          /\ ret.response.error[1].code \notin {5, 7}
             => ret.result.error = ret.response.error[1]
     ELSE IF ret.response.payload = Undefined
          THEN /\ ~ret.result.ok
               /\ ret.result.error.type = "SecretNotFoundError"
          ELSE /\ ret.result.ok
               /\ ret.result.value = PayloadToString(ret.response.payload[1])

\* C25: the continuation of a call whose fetch was issued before the fetch
\* that produced the value now stored under its cache key leaves that entry as
\* it is (`stale` marks a suspended call once a call issued after it has
\* written their common key).
C25_Step ==
  \A c \in CallIds :
    (/\ calls[c].pc # "idle"
     /\ calls'[c].pc = "idle"
     /\ calls[c].stale
     /\ CallKey(calls[c]) \in DOMAIN cache)
    => /\ CallKey(calls[c]) \in DOMAIN cache'
       /\ cache'[CallKey(calls[c])] = cache[CallKey(calls[c])]

C25_NoLostUpdate == [][C25_Step]_vars

\* Two calls are suspended on fetches for one cache key
TwoInFlight ==
  \E c, d \in CallIds :
    /\ c # d
    /\ calls[c].pc # "idle"
    /\ calls[d].pc # "idle"
    /\ CallKey(calls[c]) = CallKey(calls[d])

\* C26: a call that resumes with a value returns the value its own fetch
\* produced (for an in-memory backend, what the fetch read when it was made),
\* whatever the cache holds by then; with caching on the cache then holds that
\* value under the key, in one entry: the size grows by one if the key was not
\* stored and not at all if it was.
C26_Step ==
  \A c \in CallIds :
    (/\ calls[c].pc # "idle"
     /\ calls'[c].pc = "idle"
     /\ last'[1].result[1].ok)
    => /\ calls[c].outcome # Undefined
          => last'[1].result[1] = calls[c].outcome[1]
       /\ calls[c].held # Undefined
          => last'[1].result[1].value = calls[c].held[1]
       /\ last'[1].fetches = 1
       /\ options.cacheEnabled # Some(FALSE)
          => /\ CallKey(calls[c]) \in DOMAIN cache'
             /\ cache'[CallKey(calls[c])].value = last'[1].result[1].value
             /\ CacheSize(cache')
                  = IF CallKey(calls[c]) \in DOMAIN cache
                    THEN CacheSize(cache) ELSE CacheSize(cache) + 1

C26_NoSingleFlight == [][C26_Step]_vars

\* Two gets for one key have both missed and are both in flight, their fetches
\* having read different values, with caching on
C26_Witness ==
  /\ options.cacheEnabled # Some(FALSE)
  /\ TwoInFlight
  /\ \A c \in CallIds : calls[c].pc # "idle" /\ calls[c].held # Undefined
  /\ calls[1].held # calls[2].held

\* The calls suspended on a backend fetch
InFlight == {c \in CallIds : calls[c].pc # "idle"}

\* The error of a failed outcome
ErrorOf(outcome) == outcome.error

\* C27: while validation runs at most one get is in flight; the requirements
\* attempted are the first ones of the registry, in its order, and all but
\* the last attempted have their outcome recorded, so a get starts only when
\* the one before it has settled; the get in flight (if any) is the one for
\* the last requirement attempted; and the aggregate error lists the failures
\* in the order of their requirements.
C27_Sequential ==
  val.ran
  => /\ Cardinality(InFlight) <= 1
     /\ \A k \in 1..Len(val.attempted) : val.attempted[k] = registry[k]
     /\ Len(val.outcomes) \in {Len(val.attempted) - 1, Len(val.attempted)}
     /\ val.pc = "validating"
        => /\ Len(val.outcomes) = Len(val.attempted) - 1
           /\ (InFlight = {}) <=> (val.settled # Undefined)
           /\ \A c \in InFlight :
                /\ calls[c].name = val.attempted[Len(val.attempted)].name
                /\ calls[c].version
                     = ResolveVersion(val.attempted[Len(val.attempted)].version)
     /\ val.pc = "done"
        => /\ InFlight = {}
           /\ Len(val.outcomes) = Len(val.attempted)
           /\ ~val.result[1].ok
              => val.result[1].error.message
                   = <<"Failed to validate ",
                       ToString(Len(SelectSeq(val.outcomes, Failed))), " secret(s):\n">>
                     \o JoinMessages([i \in 1..Len(SelectSeq(val.outcomes, Failed)) |->
                                        ErrorOf(SelectSeq(val.outcomes, Failed)[i])], "\n")

\* Validation has ended after three requirements: the second was not found
\* and the third, fetched from GCP, was denied
C27_Witness ==
  /\ val.pc = "done"
  /\ Len(val.outcomes) = 3
  /\ val.outcomes[1].ok
  /\ Len(val.errors) = 2
  /\ val.errors[1].type = "SecretNotFoundError"
  /\ val.errors[2].type = "SecretAccessDeniedError"

----------------------------------------------------------------------------
(* Startup when every backend call settles *)

\* The event loop runs every continuation that is ready, and every call the
\* GCP client has been given settles one way or another
SpecStartupLive ==
  /\ InitStartup
  /\ [][NextStartup]_vars
  /\ WF_vars(ValidationGetResume)
  /\ WF_vars(\E response \in GcpResponses : ValidationRespond(response))
  /\ WF_vars(ValidateContinue)

\* A suspended call completes, or validation ends, only on the settling of the
\* backend call awaited: there is no other way out of the await, and a step
\* that leaves a call suspended leaves the cache as it is
C28_Step ==
  /\ \A c \in CallIds :
       (calls[c].pc # "idle" /\ calls'[c].pc = "idle")
       => /\ last'[1].event = "resumed"
          /\ last'[1].fetches = 1
          /\ last'[1].request
               = BackendRequest(calls[c].backend, calls[c].name, calls[c].version)
  /\ \A c \in CallIds :
       (calls[c].pc # "idle" /\ calls'[c].pc # "idle") => cache' = cache
  /\ (val.pc = "validating" /\ val'.pc = "done")
     => InFlight = {} /\ val.settled # Undefined

\* C28: when every backend call settles, every get that is suspended returns
\* or fails and a validation that has started ends with a result; a get and a
\* validation get past a backend call only when it settles, and until then
\* the call does not touch the cache.
C28_Termination ==
  /\ \A c \in CallIds : (calls[c].pc # "idle") ~> (calls[c].pc = "idle")
  /\ (val.pc = "validating") ~> (val.pc = "done" /\ val.result # Undefined)
  /\ [][C28_Step]_vars

\* Validation has ended with a result after a fetch from GCP and a fetch from
\* the in-memory backend
C28_Witness ==
  /\ val.pc = "done"
  /\ val.result # Undefined
  /\ val.fetches = 2
  /\ Len(val.outcomes) = 2
  /\ \E i \in 1..2 : val.attempted[i].backend = Some("gcp")
  /\ \E i \in 1..2 : val.attempted[i].backend = Undefined

\* The stored entry is older than the TTL
Expired(key) == ttlMs # Undefined /\ Elapsed(key) > ttlMs[1]

\* C29: an entry leaves the cache only in a get or a has on its own key that
\* finds it expired, in a delete of its key or in a clear; a get or a has
\* removes nothing else and changes no entry; the passing of time and size
\* remove nothing, and size counts the expired entries as well.
C29_Step ==
  /\ DOMAIN cache \ DOMAIN cache' # {} => ret'.op \in {"get", "has", "delete", "clear"}
  /\ ret'.op \in {"get", "has"}
     => \E key \in {getCacheKey(ret'.backend, ret'.name, ret'.version)} :
          /\ DOMAIN cache' = IF key \in DOMAIN cache /\ Expired(key)
                             THEN DOMAIN cache \ {key} ELSE DOMAIN cache
          /\ \A k \in DOMAIN cache' : cache'[k] = cache[k]
  /\ ret'.op = "size"
     => /\ ret'.result = Some(Cardinality(DOMAIN cache))
        /\ cache' = cache
  /\ ret'.op = "none" => cache' = cache

C29_LazyEviction == [][C29_Step]_vars

\* size has counted two entries that are both expired and still stored
C29_Witness ==
  /\ ret.op = "size"
  /\ ret.result = Some(2)
  /\ CacheSize(cache) = 2
  /\ \A key \in DOMAIN cache : Expired(key)

\* C30: for every backend, name and version, has returns true exactly when
\* the key is stored and not expired, which is when get returns a value, and
\* leaves the cache as get does; a has that has just run returned true iff the
\* key is still stored.
C30_HasIsGet ==
  /\ \A backend \in CacheBackends, name \in SecretNames, version \in CacheVersions :
       \E key \in {getCacheKey(backend, name, version)} :
         /\ CacheHas(cache, backend, name, version).ret
              = (key \in DOMAIN cache /\ ~Expired(key))
         /\ CacheHas(cache, backend, name, version).ret
              = (CacheGet(cache, backend, name, version).ret # Undefined)
         /\ CacheHas(cache, backend, name, version).cache
              = CacheGet(cache, backend, name, version).cache
         /\ CacheHas(cache, backend, name, version).cache
              = IF key \in DOMAIN cache /\ Expired(key) THEN MapDelete(cache, key) ELSE cache
  /\ ret.op = "has"
     => ret.result = Some(getCacheKey(ret.backend, ret.name, ret.version) \in DOMAIN cache)

\* has has returned true for a stored empty string whose age equals the TTL,
\* while an expired entry is stored under another key
C30_Witness ==
  /\ ret.op = "has"
  /\ ret.result = Some(TRUE)
  /\ ttlMs = Some(CacheTtl)
  /\ cache[getCacheKey(ret.backend, ret.name, ret.version)].value = ""
  /\ Elapsed(getCacheKey(ret.backend, ret.name, ret.version)) = CacheTtl
  /\ \E key \in DOMAIN cache : Expired(key)

----------------------------------------------------------------------------
(* The resolver's cache over time *)

\* C31: a get that returns from the cache returns an entry stored at most
\* cacheTTL ms earlier and leaves that entry, its cachedAt included, as it was;
\* an entry is stored or replaced only by a get that resumes after a successful
\* backend fetch, with the current time as cachedAt; and a get that finds the
\* entry of its key older than the TTL fetches from the backend.
C31_Step ==
  /\ (GetInvoked /\ last'[1].event = "hit")
     => \E key \in {last'[1].key[1]} :
          /\ key \in DOMAIN cache
          /\ ~Expired(key)
          /\ last'[1].result[1] = Ok(cache[key].value)
          /\ last'[1].fetches = 0
          /\ cache' = cache
  /\ \A key \in DOMAIN cache' :
       (key \notin DOMAIN cache \/ cache'[key] # cache[key])
       => /\ last' # Undefined
          /\ last'[1].event = "resumed"
          /\ last'[1].key = Some(key)
          /\ last'[1].fetches = 1
          /\ last'[1].result[1] = Ok(cache'[key].value)
          /\ cache'[key].cachedAt = now
  /\ (GetInvoked /\ last'[1].event # "rejected" /\ last'[1].cacheRead
      /\ last'[1].key[1] \in DOMAIN cache /\ Expired(last'[1].key[1]))
     => /\ last'[1].event = "suspended"
        /\ last'[1].fetches = 1
        /\ last'[1].key[1] \notin DOMAIN cache'

C31_BoundedStaleness == [][C31_Step]_vars

\* With a TTL configured, a get has returned from the cache an entry whose age
\* equals the TTL, and the entry still carries the time it was stored at
C31_Witness ==
  /\ ttlMs = Some(CacheTtl)
  /\ last # Undefined
  /\ last[1].event = "hit"
  /\ last[1].cacheRead
  /\ now - cache[last[1].key[1]].cachedAt = CacheTtl

\* The step ends a get in failure: rejected for its backend name, or resumed
\* with the error of its fetch
GetFailed == last' # Undefined /\ last'[1].event \in {"rejected", "resumed"} /\ ~last'[1].result[1].ok

\* The suspended call that the step resumes
Resumed(c) == calls[c].pc # "idle" /\ calls'[c].pc = "idle"

\* C32 as stated: a get that fails leaves the cache exactly as it was, in the
\* step that starts it as well as in the step that ends it.
C32_FailureStep ==
  GetFailed
  => /\ cache' = cache
     /\ \A c \in CallIds : Resumed(c) => ~calls[c].evicted

C32_FailureLeavesCache == [][C32_FailureStep]_vars

\* C32 (amended): a get that fails stores nothing and changes no entry; the
\* one thing it can do to the cache is to remove, when it looks its key up, the
\* entry of that key that has expired. An entry is created or replaced only by
\* a get that resumes after a successful backend fetch, so a get that finds no
\* live entry under its key fetches from the backend, whatever failed before,
\* and returns what an in-memory backend held when it was called.
C32_Step ==
  /\ GetFailed => cache' = cache
  /\ GetInvoked
     => /\ DOMAIN cache' \subseteq DOMAIN cache
        /\ \A key \in DOMAIN cache' : cache'[key] = cache[key]
        /\ \A key \in DOMAIN cache \ DOMAIN cache' :
             Expired(key) /\ last'[1].key = Some(key)
  /\ \A key \in DOMAIN cache' :
       (key \notin DOMAIN cache \/ cache'[key] # cache[key])
       => /\ ~GetFailed
          /\ last'[1].event = "resumed"
          /\ last'[1].result[1].ok
          /\ last'[1].fetches = 1
  /\ (GetInvoked /\ last'[1].event # "rejected"
      /\ (\/ ~last'[1].cacheRead
          \/ last'[1].key[1] \notin DOMAIN cache
          \/ Expired(last'[1].key[1])))
     => /\ last'[1].event = "suspended"
        /\ last'[1].fetches = 1
  /\ (last' # Undefined /\ last'[1].event = "resumed"
      /\ last'[1].backend[1].kind = "memory" /\ last'[1].held # Undefined)
     => last'[1].result[1] = Ok(last'[1].held[1])

C32_FailuresNotCached == [][C32_Step]_vars

\* With caching enabled a get has failed on its backend fetch: the cache holds
\* nothing under its key, while another get for the key is still suspended
C32_Witness ==
  /\ last # Undefined
  /\ last[1].event = "resumed"
  /\ ~last[1].result[1].ok
  /\ last[1].cacheRead
  /\ last[1].key[1] \notin DOMAIN cache
  /\ PendingFetch(calls, last[1].key[1])

----------------------------------------------------------------------------
(* Replacing a backend of a running service *)

\* The values a get of 'api-key' at 'latest' can obtain from a backend: what
\* an in-memory backend holds, or any payload the GCP client can deliver
ValuesOf(backend) ==
  IF backend.kind = "memory"
  THEN {v \in {"test-api-key-value", "custom-value", "other-value"} :
          Held(backend, "api-key", "latest") = Some(v)}
  ELSE {PayloadToString(r.payload[1]) : r \in {g \in GcpResponses : g.payload # Undefined}}

\* The latest get event is a success of a get that was called after the
\* latest registerBackend and addressed to the name that registration replaced:
\* a cache hit, or a fetch that was made on the registered backend
AfterReplacement ==
  /\ ret.op = "registerBackend"
  /\ last # Undefined
  /\ last[1].event \in {"hit", "resumed"}
  /\ last[1].result[1].ok
  /\ last[1].backend = Some(ret.backend)
  /\ last[1].event = "resumed" => last[1].request[1].backend = ret.backend.id

\* C33: once registerBackend(b) has replaced the backend under b.name, a get
\* addressed to that name that succeeds returns a value obtained from b.
C33_FromReplacement ==
  AfterReplacement => last[1].result[1].value \in ValuesOf(ret.backend)

----------------------------------------------------------------------------
(* The life of a service: registration, startup validation, then callers *)

\* The most requirements declared in this part of the model
MaxRequirements == 2

\* Requirements as decorators declare them, the version left out: the backend
\* left out, given as 'gcp' and given as 'memory', and a secret nobody holds
LifecycleRegistrations ==
  { <<"api-key", Undefined>>,
    <<"api-key", InjectSecretOptions(Undefined, Some("gcp"))>>,
    <<"api-key", InjectSecretOptions(Undefined, Some("memory"))>>,
    <<"missing-secret", Undefined>> }

\* The calls of callers, the version spelled out
LifecycleGets ==
  { GetRequest("getLatest", "api-key", Undefined, Undefined),
    GetRequest("getLatest", "api-key", Undefined, Some("gcp")),
    GetRequest("get", "api-key", Some("latest"), Some("memory")) }

\* What client.accessSecretVersion does here: it fails or delivers a payload
LifecycleResponses ==
  { GrpcRejected(14, "UNAVAILABLE"),
    GrpcPayload(Some([type |-> "string", data |-> "g1"])),
    GrpcPayload(Some([type |-> "bytes", data |-> <<103, 50>>])) }

\* 'gcp' as the default backend, caching with a TTL: once with the project id
\* that creates the backend and once without it
LifecycleOptions ==
  { ModuleOptions("gcp", Undefined, Some(CacheTtl), Undefined, Some("test-project")),
    ModuleOptions("gcp", Some(TRUE), Some(CacheTtl), Some(TRUE), Undefined) }

InitLifecycle ==
  /\ options \in LifecycleOptions
  /\ ttlMs = ConstructorTtl(options)
  /\ cache = EmptyMap
  /\ now = 0
  /\ backends = initializeBackends(options)
  /\ secrets = InitialSecrets(options)
  /\ calls = [c \in CallIds |-> IdleCall]
  /\ microtasks = <<>>
  /\ last = Undefined
  /\ firstValue = EmptyMap
  /\ quietValue = EmptyMap
  /\ cleared = FALSE
  /\ writer = EmptyMap
  /\ ret = NoOp
  /\ registry = <<>>
  /\ val = IdleValidation

\* Decorators register before the module initialises; onModuleInit validates;
\* callers use the initialised service; a backend is registered and time
\* passes at any moment
NextLifecycle ==
  \/ \E r \in LifecycleRegistrations :
       Len(register(registry, r[1], r[2])) <= MaxRequirements /\ Register(r[1], r[2])
  \/ ModuleInit
  \/ ValidationGetResume
  \/ \E response \in LifecycleResponses : ValidationRespond(response)
  \/ ValidateContinue
  \/ \E req \in LifecycleGets : val.pc = "done" /\ GetStart(1, req)
  \/ val.pc = "done" /\ GetResume
  \/ \E response \in LifecycleResponses : val.pc = "done" /\ BackendRespond(1, response)
  \/ val.pc = "done" /\ ClearCache
  \/ \E backend \in {GcpBackend, OtherMemoryBackend} : RegisterBackend(backend)
  \/ Tick

SpecLifecycle == InitLifecycle /\ [][NextLifecycle]_vars

\* The cache key of a requirement's get
ReqKey(s) ==
  getCacheKey(OrElse(s.backend, options.defaultBackend), s.name,
              Some(ResolveVersion(s.version)))

\* The step in which validateAllSecrets returns or throws
PassEnds == val.pc = "validating" /\ val'.pc = "done"

\* A caller's get finds, live, the entry that validation stored for the
\* requirement attempted as number i
ValidatedHit(i) ==
  /\ GetInvoked
  /\ val.pc = "done"
  /\ i \in 1..Len(val.attempted)
  /\ val.outcomes[i].ok
  /\ last'[1].event # "rejected"
  /\ last'[1].key = Some(ReqKey(val.attempted[i]))
  /\ ReqKey(val.attempted[i]) \in DOMAIN cache
  /\ ~Expired(ReqKey(val.attempted[i]))
  /\ writer[ReqKey(val.attempted[i])] = "omitted"

\* The requirement attempted as number i is the last one attempted with its key
LastOfKey(v, i) ==
  \A j \in (i + 1)..Len(v.attempted) : ReqKey(v.attempted[j]) # ReqKey(v.attempted[i])

\* C34 as stated: with caching enabled, when a validation pass ends every
\* requirement that resolved has its key cached with the validated value and
\* every requirement that failed has no entry under its key; and a later get
\* that finds the stored entry within its TTL, no clearCache in between,
\* returns the validated value without a backend fetch.
C34_PassStep ==
  /\ PassEnds
     => \A i \in 1..Len(val'.attempted) :
          \E key \in {ReqKey(val'.attempted[i])} :
            IF val'.outcomes[i].ok
            THEN key \in DOMAIN cache' /\ cache'[key].value = val'.outcomes[i].value
            ELSE key \notin DOMAIN cache'
  /\ \A i \in 1..MaxRequirements :
       ValidatedHit(i)
       => /\ last'[1].event = "hit"
          /\ last'[1].fetches = 0
          /\ last'[1].result[1] = Ok(val.outcomes[i].value)

C34_ValidationCaches == [][C34_PassStep]_vars

\* C34 (amended): validation's gets go through the cache: a requirement whose
\* key is cached resolves without a fetch; when the pass ends, the key of a
\* requirement holds an entry exactly if the last requirement attempted with
\* that key resolved, and the entry holds that requirement's value; a failed
\* requirement stored nothing; and a later get that finds, within its TTL and
\* with no clearCache in between, the entry validation stored is a cache hit
\* that returns the value of the last requirement of that key, without a fetch.
C34_Step ==
  /\ PassEnds
     => \A i \in 1..Len(val'.attempted) :
          \E key \in {ReqKey(val'.attempted[i])} :
            LastOfKey(val', i)
            => IF val'.outcomes[i].ok
               THEN key \in DOMAIN cache' /\ cache'[key].value = val'.outcomes[i].value
               ELSE key \notin DOMAIN cache'
  /\ (val'.pc = "validating" /\ GetInvoked /\ last'[1].event # "rejected")
     => IF last'[1].key[1] \in DOMAIN cache /\ ~Expired(last'[1].key[1])
        THEN last'[1].event = "hit" /\ last'[1].fetches = 0
        ELSE last'[1].event = "suspended" /\ last'[1].fetches = 1
  /\ (val.pc = "validating" /\ GetFailed) => cache' = cache
  /\ \A i \in 1..MaxRequirements :
       (ValidatedHit(i) /\ LastOfKey(val, i))
       => /\ last'[1].event = "hit"
          /\ last'[1].fetches = 0
          /\ last'[1].result[1] = Ok(val.outcomes[i].value)

C34_ValidationWarmsCache == [][C34_Step]_vars

\* After a pass in which one requirement resolved and another failed, a
\* caller's get has returned the validated value from the cache, stored by
\* validation and as old as the TTL allows
C34_Witness ==
  /\ val.pc = "done"
  /\ Len(val.attempted) = 2
  /\ \E i \in 1..2 : ~val.outcomes[i].ok
  /\ \E i \in 1..2 :
       /\ val.outcomes[i].ok
       /\ last # Undefined
       /\ last[1].event = "hit"
       /\ last[1].req # Undefined
       /\ last[1].req[1].op = "getLatest"
       /\ last[1].key = Some(ReqKey(val.attempted[i]))
       /\ last[1].result[1] = Ok(val.outcomes[i].value)
       /\ last[1].wroteBy = Some("omitted")
       /\ Elapsed(last[1].key[1]) = CacheTtl

\* No backend is registered under the name the options give as the default
Misconfigured == TableGet(backends, options.defaultBackend) = Undefined

\* The error of an outcome says that the default backend is unknown
UnknownDefault(outcome) ==
  /\ ~outcome.ok
  /\ outcome.error.type = "Error"
  /\ Contains(outcome.error.message,
              <<"Unknown secret backend: '", options.defaultBackend, "'. Available backends: ">>)

\* C35: a service whose defaultBackend names a backend that its options do
\* not create exists, with the table the constructor builds for the other
\* options; as long as no backend is registered under that name a get that
\* omits backendName is rejected with the unknown-backend error, without a
\* fetch, and a validation pass ends in the aggregate error with one such
\* failure for each requirement that has no backend; once a backend is
\* registered under the name such a get is no longer rejected.
C35_Step ==
  /\ (options.gcpProjectId = Undefined /\ TableGet(backends, "gcp") # Some(GcpBackend))
     => /\ TableGet(backends, options.defaultBackend) = Undefined
        /\ TableKeys(backends) = <<"memory">>
  /\ (GetInvoked /\ last'[1].req[1].backendName = Undefined)
     => IF Misconfigured
        THEN /\ last'[1].event = "rejected"
             /\ UnknownDefault(last'[1].result[1])
             /\ last'[1].fetches = 0
        ELSE last'[1].event # "rejected"
  /\ (PassEnds /\ Misconfigured)
     => /\ \A i \in 1..Len(val'.attempted) :
             val'.attempted[i].backend = Undefined => UnknownDefault(val'.outcomes[i])
        /\ Len(val'.errors) = Cardinality({i \in 1..Len(val'.attempted) :
                                             ~val'.outcomes[i].ok})
        /\ Len(val'.errors) >= Cardinality({i \in 1..Len(val'.attempted) :
                                              val'.attempted[i].backend = Undefined})
        /\ \A i \in 1..Len(val'.attempted) :
             val'.attempted[i].backend = Undefined
             => /\ val'.result = Some(Err(ValidationError(val'.errors)))
                /\ Contains(val'.result[1].error.message, val'.outcomes[i].error.message)

C35_DefaultUnchecked == [][C35_Step]_vars

\* Built with defaultBackend 'gcp' and no project id, the service has
\* collected one unknown-backend failure for each of two requirements without
\* a backend, and a caller's get without a backend name has been rejected
C35_Witness ==
  /\ Misconfigured
  /\ options.defaultBackend = "gcp"
  /\ val.pc = "done"
  /\ Len(val.attempted) = 2
  /\ Len(val.errors) = 2
  /\ \A i \in 1..2 : val.attempted[i].backend = Undefined /\ UnknownDefault(val.outcomes[i])
  /\ last # Undefined
  /\ last[1].event = "rejected"
  /\ last[1].req[1].op = "getLatest"

\* The cache entries under every key outside keys are as they were
SameBut(keys) ==
  /\ DOMAIN cache' \ keys = DOMAIN cache \ keys
  /\ \A key \in DOMAIN cache \ keys : key \in DOMAIN cache' => cache'[key] = cache[key]

\* C36: a step of a get (its call or its continuation, by a caller or by
\* validation, successful or failing) leaves the backend table, the registry
\* and the stores of the in-memory backends as they were and changes no cache
\* entry but that of its own key; clearCache leaves everything but the cache
\* as it was; registerBackend(b) leaves the cache, the registry and the stores
\* as they were, and in the table every entry but that of b.name; and nothing
\* else changes the table.
C36_Step ==
  /\ last' # Undefined
     => /\ backends' = backends
        /\ registry' = registry
        /\ secrets' = secrets
        /\ options' = options /\ ttlMs' = ttlMs /\ now' = now
        /\ IF last'[1].event = "rejected"
           THEN cache' = cache /\ calls' = calls
           ELSE SameBut({last'[1].key[1]})
  /\ ClearCache
     => /\ cache' = EmptyMap
        /\ backends' = backends
        /\ registry' = registry
        /\ secrets' = secrets
        /\ val' = val
        /\ microtasks' = microtasks
        /\ \A c \in CallIds : calls'[c].pc = calls[c].pc
  /\ \A backend \in {GcpBackend, OtherMemoryBackend} :
       RegisterBackend(backend)
       => /\ TableGet(backends', backend.name) = Some(backend)
          /\ \A i \in 1..Len(backends) :
               backends[i].name # backend.name => backends'[i] = backends[i]
          /\ Len(backends') = IF TableGet(backends, backend.name) = Undefined
                              THEN Len(backends) + 1 ELSE Len(backends)
          /\ cache' = cache
          /\ registry' = registry
          /\ secrets' = secrets
          /\ calls' = calls
          /\ val' = val
  /\ backends' # backends
     => \E backend \in {GcpBackend, OtherMemoryBackend} : RegisterBackend(backend)

C36_Frames == [][C36_Step]_vars

\* With requirements registered and a second backend in the table, a get has
\* stored the entry of its key beside the entry of another key
C36_Witness ==
  /\ Len(registry) > 0
  /\ Len(backends) > 1
  /\ TableGet(backends, "memory") = Some(OtherMemoryBackend)
  /\ last # Undefined
  /\ last[1].event = "resumed"
  /\ last[1].result[1].ok
  /\ last[1].key[1] \in DOMAIN cache
  /\ CacheSize(cache) > 1

----------------------------------------------------------------------------
(* What the diagnostics of a service show of its in-memory secrets *)

\* A service on its in-memory backend alone, caching enabled, holding any of
\* the values under 'api-key'
InitDiagnostics ==
  /\ \E value \in MemValues :
       options = [ModuleOptions("memory", Some(TRUE), Undefined, Undefined, Undefined)
                    EXCEPT !.inMemorySecrets = Some("api-key" :> value)]
  /\ ttlMs = ConstructorTtl(options)
  /\ cache = EmptyMap
  /\ now = 0
  /\ backends = initializeBackends(options)
  /\ secrets = InitialSecrets(options)
  /\ calls = [c \in CallIds |-> IdleCall]
  /\ microtasks = <<>>
  /\ last = Undefined
  /\ firstValue = EmptyMap
  /\ quietValue = EmptyMap
  /\ cleared = FALSE
  /\ writer = EmptyMap
  /\ ret = NoOp
  /\ registry = <<>>
  /\ val = IdleValidation

\* Decorators register, onModuleInit validates, then callers call get and
\* clearCache and a test sets the value of 'api-key'
NextDiagnostics ==
  \/ \E r \in LifecycleRegistrations :
       Len(register(registry, r[1], r[2])) <= MaxRequirements /\ Register(r[1], r[2])
  \/ ModuleInit
  \/ ValidationGetResume
  \/ ValidateContinue
  \/ \E req \in GetRequests : val.pc = "done" /\ GetStart(1, req)
  \/ val.pc = "done" /\ GetResume
  \/ val.pc = "done" /\ ClearCache
  \/ \E value \in MemValues : val.pc = "done" /\ MemorySet("api-key", value, Undefined)

SpecDiagnostics == InitDiagnostics /\ [][NextDiagnostics]_vars

\* What can be known of a backend's store without its values: that it holds
\* the name at the version
PublicHolds(backend, name, version) ==
  /\ name \in DOMAIN secrets[backend.id]
  /\ version \in DOMAIN secrets[backend.id][name]

PublicNotFound(name, backendName, version) ==
  <<"Secret '", name, "' not found in backend '", backendName, "'",
    " (version: ", version, ")">>

PublicUnknown(backendName) ==
  <<"Unknown secret backend: '", backendName, "'. Available backends: ">>
    \o Join(TableKeys(backends), ", ")

\* The ended span of a get, from its attributes and its failure message
PublicSpan(name, version, backendName, message) ==
  Some([name |-> name, version |-> version, backend |-> backendName,
        status |-> IF message = <<>> THEN "OK" ELSE "ERROR",
        message |-> message, ended |-> TRUE])

\* The failure message of a requirement's get, empty when it resolves
PublicFailure(s) ==
  LET backendName == OrElse(s.backend, options.defaultBackend) IN
    IF TableGet(backends, backendName) = Undefined
    THEN [message |-> PublicUnknown(backendName)]
    ELSE IF PublicHolds(TableGet(backends, backendName)[1], s.name, ResolveVersion(s.version))
         THEN [message |-> <<>>]
         ELSE [message |-> PublicNotFound(s.name, backendName, ResolveVersion(s.version))]

IsFailure(e) == e.message # <<>>

PublicFailures(attempted) ==
  SelectSeq([i \in 1..Len(attempted) |-> PublicFailure(attempted[i])], IsFailure)

\* C37: every diagnostic of a get or of a validation pass is what the names,
\* the versions, the backend names, the keys of the cache and the names and
\* versions a store holds make it, whatever the values of the secrets are: the
\* attributes, status and message of the span, the messages of the not-found
\* and unknown-backend errors and the message of the aggregate error; and the
\* keys of the cache and the names and versions of the stores change by the
\* same rule. Two runs of the same calls that differ in the values alone
\* therefore produce the same diagnostics.
C37_Step ==
  /\ GetInvoked
     => \E req \in {last'[1].req[1]} :
        \E backendName \in {OrElse(req.backendName, options.defaultBackend)},
           version \in {IF req.op = "getLatest" THEN "latest" ELSE OrElse(req.version, "latest")} :
          /\ DOMAIN cache' = DOMAIN cache
          /\ IF TableGet(backends, backendName) = Undefined
             THEN /\ last'[1].event = "rejected"
                  /\ last'[1].span = Undefined
                  /\ ~last'[1].result[1].ok
                  /\ last'[1].result[1].error.message = PublicUnknown(backendName)
             ELSE IF getCacheKey(backendName, req.name, Some(version)) \in DOMAIN cache
                  THEN /\ last'[1].event = "hit"
                       /\ last'[1].span = PublicSpan(req.name, version, backendName, <<>>)
                  ELSE /\ last'[1].event = "suspended"
                       /\ last'[1].span = Undefined
  /\ \A c \in CallIds :
       Resumed(c)
       => \E call \in {calls[c]} :
            IF PublicHolds(call.backend, call.name, call.version)
            THEN /\ last'[1].result[1].ok
                 /\ last'[1].span = PublicSpan(call.name, call.version, call.backend.name, <<>>)
                 /\ DOMAIN cache' = DOMAIN cache \cup {CallKey(call)}
            ELSE /\ ~last'[1].result[1].ok
                 /\ last'[1].result[1].error.type = "SecretNotFoundError"
                 /\ last'[1].result[1].error.message
                      = PublicNotFound(call.name, call.backend.name, call.version)
                 /\ last'[1].span = PublicSpan(call.name, call.version, call.backend.name,
                                               PublicNotFound(call.name, call.backend.name,
                                                              call.version))
                 /\ DOMAIN cache' = DOMAIN cache
  /\ PassEnds
     => \E failures \in {PublicFailures(val'.attempted)} :
          /\ Len(val'.errors) = Len(failures)
          /\ \A i \in 1..Len(failures) : val'.errors[i].message = failures[i].message
          /\ val'.result = Some(IF Len(failures) = 0 THEN Ok("void")
                                ELSE Err(ValidationError(failures)))
  /\ \A id \in DOMAIN secrets :
       /\ DOMAIN secrets'[id] = DOMAIN secrets[id]
       /\ \A name \in DOMAIN secrets[id] : DOMAIN secrets'[id][name] = DOMAIN secrets[id][name]

C37_NoLeak == [][C37_Step]_vars

\* While the in-memory backend holds the empty string, a pass has ended in
\* the aggregate error of a not-found and an unknown-backend failure and a
\* caller's get of the secret has ended its span with status OK
C37_Witness ==
  /\ secrets[MemoryBackend.id]["api-key"]["latest"] = ""
  /\ val.pc = "done"
  /\ Len(val.errors) = 2
  /\ \E i \in 1..2 : val.errors[i].type = "SecretNotFoundError"
  /\ \E i \in 1..2 : val.errors[i].type = "Error"
  /\ last # Undefined
  /\ last[1].event = "resumed"
  /\ last[1].result[1] = Ok("")
  /\ last[1].span # Undefined
  /\ last[1].span[1].status = "OK"

====
